---- MODULE Spec2Model ----
(***************************************************************************)
(* Model of the contract verifier (src/src/verify-contracts.ts): the       *)
(* import-resolution check, the dependency graph and its DFS cycle         *)
(* detection, the naming audit, the structural shape comparison, and the   *)
(* verifyContracts pipeline that composes them into a report.              *)
(*                                                                         *)
(* Strings are TLA+ strings; characters are read with SubSeq(s, i, i).     *)
(* A JavaScript Map is a sequence of [k, v] entries in insertion order; a  *)
(* JavaScript array is a sequence.                                         *)
(***************************************************************************)
EXTENDS Integers, Sequences, FiniteSets, TLC

VARIABLES
    pc,             \* position of the run
    files,          \* the file system: path -> document
    primitivesPath, \* options.primitivesPath
    contractPaths,  \* options.contractPaths
    primitives,     \* SharedPrimitives, once parsed
    contracts,      \* ParsedContract[], in input order
    allIssues,      \* VerificationIssue[] accumulated by the run
    graph,          \* DependencyNode[] returned by checkCircularDependencies
    report,         \* the VerificationReport, once generated
    dGraph,         \* detectCycles: the Graph argument
    dStack,         \* detectCycles: active dfs frames [node, path, idx]
    dVisited,       \* detectCycles: visited
    dRecStack,      \* detectCycles: recStack
    dCycles,        \* detectCycles: cycles
    dKey,           \* detectCycles: position of the loop over graph.keys()
    dCalls,         \* detectCycles: the nodes dfs was entered on, in order
    options,        \* cli: the options of the verify command
    exited,         \* cli: <<>> while the process runs, <<status>> after process.exit
    scan            \* parseContract: the locals of the loop over the lines

runVars == <<pc, files, primitivesPath, contractPaths, primitives, contracts,
             allIssues, graph, report>>
dfsVars == <<dGraph, dStack, dVisited, dRecStack, dCycles, dKey, dCalls>>
cliVars == <<options, exited>>
vars == <<pc, files, primitivesPath, contractPaths, primitives, contracts,
          allIssues, graph, report,
          dGraph, dStack, dVisited, dRecStack, dCycles, dKey, dCalls,
          options, exited, scan>>

(***************************************************************************)
(* Bounds of the model.                                                    *)
(***************************************************************************)
MaxContracts == 2
MaxImports == 2
MaxDeps == 2
MaxProps == 2
MaxTypeLen == 3
MaxNames == 2

(***************************************************************************)
(* Strings.                                                                *)
(***************************************************************************)
CharAt(s, i) == SubSeq(s, i, i)

StartsWith(s, p) == Len(s) >= Len(p) /\ SubSeq(s, 1, Len(p)) = p

EndsWith(s, p) == Len(s) >= Len(p) /\ SubSeq(s, Len(s) - Len(p) + 1, Len(s)) = p

Includes(s, p) ==
    \E i \in 1..(Len(s) - Len(p) + 1) : SubSeq(s, i, i + Len(p) - 1) = p

UpperChars == "ABCDEFGHIJKLMNOPQRSTUVWXYZ"
LowerChars == "abcdefghijklmnopqrstuvwxyz"

\* upper-case letter -> lower-case letter
LowerMap ==
    [c \in { CharAt(UpperChars, i) : i \in 1..Len(UpperChars) } |->
        CharAt(LowerChars, CHOOSE i \in 1..Len(UpperChars) : CharAt(UpperChars, i) = c)]

LowerChar(c) == IF c \in DOMAIN LowerMap THEN LowerMap[c] ELSE c

RECURSIVE ToLowerCase(_)
ToLowerCase(s) ==
    IF Len(s) = 0 THEN ""
    ELSE LowerChar(CharAt(s, 1)) \o ToLowerCase(SubSeq(s, 2, Len(s)))

IsSpace(c) == c \in {" ", "\t", "\n", "\r"}

\* s.replace(/\s+/g, '')
RECURSIVE StripSpaces(_)
StripSpaces(s) ==
    IF Len(s) = 0 THEN ""
    ELSE (IF IsSpace(CharAt(s, 1)) THEN "" ELSE CharAt(s, 1))
         \o StripSpaces(SubSeq(s, 2, Len(s)))

\* path.basename(p): the part after the last '/'
RECURSIVE Basename(_)
Basename(p) ==
    IF \E i \in 1..Len(p) : CharAt(p, i) = "/"
    THEN Basename(SubSeq(p, (CHOOSE i \in 1..Len(p) : CharAt(p, i) = "/") + 1, Len(p)))
    ELSE p

(***************************************************************************)
(* Arrays and Maps.                                                        *)
(***************************************************************************)
Range(s) == { s[i] : i \in 1..Len(s) }

Contains(s, x) == \E i \in 1..Len(s) : s[i] = x

\* Array.prototype.indexOf, 1-based; 0 when absent
IndexOf(s, x) ==
    IF Contains(s, x) THEN CHOOSE i \in 1..Len(s) : s[i] = x /\ \A j \in 1..(i - 1) : s[j] # x
    ELSE 0

RECURSIVE Flatten(_)
Flatten(ss) == IF Len(ss) = 0 THEN <<>> ELSE Head(ss) \o Flatten(Tail(ss))

MapHas(m, k) == \E i \in 1..Len(m) : m[i].k = k

MapGet(m, k) == m[CHOOSE i \in 1..Len(m) : m[i].k = k].v

\* Map.prototype.set: an existing key keeps its position and takes the new value
MapSet(m, k, v) ==
    IF MapHas(m, k)
    THEN [i \in 1..Len(m) |-> IF m[i].k = k THEN [k |-> k, v |-> v] ELSE m[i]]
    ELSE Append(m, [k |-> k, v |-> v])

\* new Map(entries)
RECURSIVE MapFrom(_, _)
MapFrom(m, entries) ==
    IF Len(entries) = 0 THEN m
    ELSE MapFrom(MapSet(m, Head(entries).k, Head(entries).v), Tail(entries))

MapKeys(m) == [i \in 1..Len(m) |-> m[i].k]

(***************************************************************************)
(* Import resolution.                                                      *)
(***************************************************************************)
Issue(sev, cat, msg, file, line, sugg) ==
    [severity |-> sev, category |-> cat, message |-> msg, file |-> file,
     line |-> line, suggestion |-> sugg]

\* An issue without a line (line is optional in VerificationIssue)
NoLine == 0

externalLibraries == {"zod", "express", "prisma", "@prisma/client", "date-fns", "lodash"}

\* the first `continue` of the loop over imports
IsExternalSource(source) == source \in externalLibraries \/ StartsWith(source, "@")

\* IsLocalSource, skipping same-directory paths only
IsLocalSourceSameDirectory(source) == StartsWith(source, "./") /\ ~Includes(source, "shared")

\* the second `continue` of the loop over imports
IsLocalSource(source) == StartsWith(source, ".") /\ ~Includes(source, "shared")

\* AvailableTypes, leaving out the declarations of the contracts
AvailableTypesOfPrimitives(cs, prims) ==
    MapFrom(<<>>,
        [i \in 1..Len(prims.types) |-> [k |-> prims.types[i].k, v |-> prims.filePath]])

\* availableTypes: name -> file of the last document that declares it
AvailableTypes(cs, prims) ==
    MapFrom(<<>>,
        [i \in 1..Len(prims.types) |-> [k |-> prims.types[i].k, v |-> prims.filePath]]
        \o Flatten([c \in 1..Len(cs) |->
              [t \in 1..Len(cs[c].types) |->
                  [k |-> cs[c].types[t].name, v |-> cs[c].filePath]]]))

ImportIssue(contract, imp) ==
    Issue("error", "import",
          "Unresolved import: '" \o imp.name \o "' from '" \o imp.source \o "'",
          contract.filePath, imp.line,
          "Ensure '" \o imp.name \o "' is defined in shared primitives or another contract")

checkImportResolution(cs, prims) ==
    LET availableTypes == AvailableTypes(cs, prims)
        ForImport(contract, imp) ==
            IF IsExternalSource(imp.source) THEN <<>>
            ELSE IF IsLocalSource(imp.source) THEN <<>>
            ELSE IF MapHas(availableTypes, imp.name) THEN <<>>
            ELSE <<ImportIssue(contract, imp)>>
    IN Flatten([c \in 1..Len(cs) |->
           Flatten([i \in 1..Len(cs[c].imports) |-> ForImport(cs[c], cs[c].imports[i])])])

(***************************************************************************)
(* Cycle detection, as a function of the graph.  A dfs call returns the    *)
(* shared visited / recStack / cycles it leaves behind.                    *)
(***************************************************************************)
Neighbors(g, node) == IF MapHas(g, node) THEN MapGet(g, node) ELSE <<>>

\* CycleFrom, slicing from the element after the neighbour's first occurrence
CycleFromAfter(path, neighbor) ==
    Append(SubSeq(path, IndexOf(path, neighbor) + 1, Len(path)), neighbor)

\* CycleFrom, without the closing push of the neighbour
CycleFromOpen(path, neighbor) == SubSeq(path, IndexOf(path, neighbor), Len(path))

\* the cycle pushed when an edge reaches `neighbor` on the recursion stack
CycleFrom(path, neighbor) ==
    Append(SubSeq(path, IndexOf(path, neighbor), Len(path)), neighbor)

RECURSIVE Dfs(_, _, _, _)
RECURSIVE DfsLoop(_, _, _, _, _)
Dfs(g, node, path, st) ==
    LET path1 == Append(path, node)
        st1 == [visited |-> st.visited \cup {node},
                recStack |-> st.recStack \cup {node},
                cycles |-> st.cycles]
        st2 == DfsLoop(g, Neighbors(g, node), 1, path1, st1)
    IN [st2 EXCEPT !.recStack = @ \ {node}]

DfsLoop(g, nbrs, i, path, st) ==
    IF i > Len(nbrs) THEN st
    ELSE LET neighbor == nbrs[i]
             next == IF neighbor \notin st.visited
                       THEN Dfs(g, neighbor, path, st)
                     ELSE IF neighbor \in st.recStack /\ IndexOf(path, neighbor) # 0
                       THEN [st EXCEPT !.cycles = Append(@, CycleFrom(path, neighbor))]
                     ELSE st
         IN DfsLoop(g, nbrs, i + 1, path, next)

RECURSIVE DetectLoop(_, _, _, _)
DetectLoop(g, keys, i, st) ==
    IF i > Len(keys) THEN st
    ELSE DetectLoop(g, keys, i + 1,
                    IF keys[i] \notin st.visited THEN Dfs(g, keys[i], <<>>, st) ELSE st)

detectCycles(g) ==
    DetectLoop(g, MapKeys(g), 1, [visited |-> {}, recStack |-> {}, cycles |-> <<>>]).cycles

(***************************************************************************)
(* Dependency graph.                                                       *)
(***************************************************************************)
ProvidesType(other, name) == \E t \in 1..Len(other.types) : other.types[t].name = name

\* deps of one contract: basenames of the other contracts that declare a name
\* it imports, in order of first discovery, without repetition
RECURSIVE DepsLoop(_, _, _, _, _)
DepsLoop(cs, contract, i, o, deps) ==
    IF i > Len(contract.imports) THEN deps
    ELSE IF o > Len(cs) THEN DepsLoop(cs, contract, i + 1, 1, deps)
    ELSE LET other == cs[o]
             otherName == Basename(other.filePath)
             hit == /\ other.filePath # contract.filePath
                    /\ ProvidesType(other, contract.imports[i].name)
                    /\ ~Contains(deps, otherName)
         IN DepsLoop(cs, contract, i, o + 1, IF hit THEN Append(deps, otherName) ELSE deps)

ContractDeps(cs, contract) == DepsLoop(cs, contract, 1, 1, <<>>)

DependencyNodes(cs) ==
    [c \in 1..Len(cs) |->
        [name |-> Basename(cs[c].filePath), dependencies |-> ContractDeps(cs, cs[c])]]

\* graph.set(contractName, deps) for each contract in turn
BuildGraph(cs) ==
    MapFrom(<<>>, [c \in 1..Len(cs) |->
        [k |-> Basename(cs[c].filePath), v |-> ContractDeps(cs, cs[c])]])

RECURSIVE Join(_, _)
Join(s, sep) ==
    IF Len(s) = 0 THEN ""
    ELSE IF Len(s) = 1 THEN s[1]
    ELSE s[1] \o sep \o Join(Tail(s), sep)

CycleIssue(cycle) ==
    Issue("error", "circular-dep",
          "Circular dependency detected: " \o Join(cycle, " -> "),
          cycle[1], NoLine,
          "Refactor to break the circular dependency, possibly by extracting shared types to primitives")

checkCircularDependencies(cs) ==
    LET cycles == detectCycles(BuildGraph(cs))
    IN [graph |-> DependencyNodes(cs),
        issues |-> [i \in 1..Len(cycles) |-> CycleIssue(cycles[i])]]

(***************************************************************************)
(* Naming audit.                                                           *)
(***************************************************************************)
Min3(a, b, c) == IF a <= b /\ a <= c THEN a ELSE IF b <= c THEN b ELSE c

\* the inner loop: row i of the matrix, filled left to right from row i - 1;
\* a row is a sequence indexed from 1, column j of the matrix is element j + 1
RECURSIVE LevRow(_, _, _, _, _)
LevRow(a, b, i, prev, cur) ==
    LET j == Len(cur)
    IN IF j > Len(a) THEN cur
       ELSE LevRow(a, b, i, prev,
                Append(cur,
                    IF CharAt(b, i) = CharAt(a, j)
                    THEN prev[j]
                    ELSE Min3(prev[j] + 1, cur[j] + 1, prev[j + 1] + 1)))

\* the outer loop: the matrix so far holds rows 0 .. Len(matrix) - 1
RECURSIVE LevRows(_, _, _)
LevRows(a, b, matrix) ==
    LET i == Len(matrix)
    IN IF i > Len(b) THEN matrix
       ELSE LevRows(a, b, Append(matrix, LevRow(a, b, i, matrix[i], <<i>>)))

\* matrix[b.length][a.length]
levenshteinDistance(a, b) ==
    LevRows(a, b, << [j \in 1..(Len(a) + 1) |-> j - 1] >>)[Len(b) + 1][Len(a) + 1]

Max(a, b) == IF a >= b THEN a ELSE b

\* the ratio 1 - distance / maxLen, kept exact as the pair (maxLen - distance, maxLen);
\* the ratio of two empty strings is 1
similarityRatio(a, b) ==
    LET maxLen == Max(Len(a), Len(b))
    IN IF maxLen = 0 THEN [num |-> 1, den |-> 1]
       ELSE [num |-> maxLen - levenshteinDistance(a, b), den |-> maxLen]

\* [...new Set(names)]
RECURSIVE Unique(_, _)
Unique(s, acc) ==
    IF Len(s) = 0 THEN acc
    ELSE Unique(Tail(s), IF Contains(acc, Head(s)) THEN acc ELSE Append(acc, Head(s)))

\* IsSimilar, without the upper limit
IsSimilarOrEqual(ratio, threshold) == ratio.num * 100 >= threshold * ratio.den

\* ratio >= threshold && ratio < 1, the threshold given in hundredths
IsSimilar(ratio, threshold) ==
    ratio.num * 100 >= threshold * ratio.den /\ ratio.num < ratio.den

\* findSimilarNames, looping over names as given instead of over the distinct names
findSimilarNamesOfAll(names, threshold) ==
    LET n == Len(names)
        Ratio(i, j) == similarityRatio(ToLowerCase(names[i]), ToLowerCase(names[j]))
        Inner(i) ==
            LET hits == SelectSeq([k \in 1..(n - i) |-> i + k],
                                  LAMBDA j : /\ names[i] # names[j]
                                             /\ IsSimilar(Ratio(i, j), threshold))
            IN [k \in 1..Len(hits) |->
                   [name1 |-> names[i], name2 |-> names[hits[k]],
                    ratio |-> Ratio(i, hits[k])]]
    IN Flatten([i \in 1..n |-> Inner(i)])

\* the pairs [name1, name2, ratio] pushed by the two loops, in loop order.
\* The names of uniqueNames are distinct, so name1 === name2 never holds and
\* no pairKey is met twice: seenPairs never stops a push.
findSimilarNames(names, threshold) ==
    LET uniqueNames == Unique(names, <<>>)
        n == Len(uniqueNames)
        Ratio(i, j) == similarityRatio(ToLowerCase(uniqueNames[i]), ToLowerCase(uniqueNames[j]))
        \* the pushes of the inner loop for one i
        Inner(i) ==
            LET hits == SelectSeq([k \in 1..(n - i) |-> i + k],
                                  LAMBDA j : /\ uniqueNames[i] # uniqueNames[j]
                                             /\ IsSimilar(Ratio(i, j), threshold))
            IN [k \in 1..Len(hits) |->
                   [name1 |-> uniqueNames[i], name2 |-> uniqueNames[hits[k]],
                    ratio |-> Ratio(i, hits[k])]]
    IN Flatten([i \in 1..n |-> Inner(i)])

\* /^<prefix>\w+<suffix>$/ on a name made of word characters
Matches(name, prefix, suffix) ==
    /\ Len(name) >= Len(prefix) + Len(suffix) + 1
    /\ StartsWith(name, prefix)
    /\ EndsWith(name, suffix)

\* expectedPatternPairs, without the pairs of two names of one form
expectedPatternPairsOfTwoForms ==
    << <<[p |-> "Create", s |-> "Input"],    [p |-> "Update", s |-> "Input"]>>,
       <<[p |-> "Create", s |-> "Request"],  [p |-> "Update", s |-> "Request"]>>,
       <<[p |-> "Create", s |-> "Response"], [p |-> "Update", s |-> "Response"]>>,
       <<[p |-> "", s |-> "Id"],             [p |-> "", s |-> "Ref"]>>,
       <<[p |-> "", s |-> "Score"],          [p |-> "", s |-> "Scores"]>>,
       <<[p |-> "I", s |-> "Service"],       [p |-> "I", s |-> "Repository"]>> >>

expectedPatternPairs ==
    << <<[p |-> "Create", s |-> "Input"],    [p |-> "Update", s |-> "Input"]>>,
       <<[p |-> "Create", s |-> "Request"],  [p |-> "Update", s |-> "Request"]>>,
       <<[p |-> "Create", s |-> "Response"], [p |-> "Update", s |-> "Response"]>>,
       <<[p |-> "", s |-> "Id"],             [p |-> "", s |-> "Ref"]>>,
       <<[p |-> "", s |-> "Id"],             [p |-> "", s |-> "Id"]>>,
       <<[p |-> "", s |-> "Ref"],            [p |-> "", s |-> "Ref"]>>,
       <<[p |-> "", s |-> "Score"],          [p |-> "", s |-> "Scores"]>>,
       <<[p |-> "I", s |-> "Service"],       [p |-> "I", s |-> "Repository"]>> >>

baseSuffixes ==
    <<"Id", "Ref", "Input", "Output", "Request", "Response", "Type", "Status",
      "Score", "Scores">>

\* n.replace(/(Id|Ref|...|Scores)$/, ''): the leftmost match is the longest
\* listed suffix the name ends with
StripSuffix(n) ==
    LET hits == { i \in 1..Len(baseSuffixes) : EndsWith(n, baseSuffixes[i]) }
    IN IF hits = {} THEN n
       ELSE LET best == CHOOSE i \in hits :
                            \A k \in hits : Len(baseSuffixes[k]) <= Len(baseSuffixes[i])
            IN SubSeq(n, 1, Len(n) - Len(baseSuffixes[best]))

\* isExpectedPair without the comparison of the stripped names
isExpectedPairByPattern(n1, n2) ==
    \E i \in 1..Len(expectedPatternPairs) :
        LET pattern1 == expectedPatternPairs[i][1]
            pattern2 == expectedPatternPairs[i][2]
        IN \/ Matches(n1, pattern1.p, pattern1.s) /\ Matches(n2, pattern2.p, pattern2.s)
           \/ Matches(n1, pattern2.p, pattern2.s) /\ Matches(n2, pattern1.p, pattern1.s)

isExpectedPair(n1, n2) ==
    \/ \E i \in 1..Len(expectedPatternPairs) :
          LET pattern1 == expectedPatternPairs[i][1]
              pattern2 == expectedPatternPairs[i][2]
          IN \/ Matches(n1, pattern1.p, pattern1.s) /\ Matches(n2, pattern2.p, pattern2.s)
             \/ Matches(n1, pattern2.p, pattern2.s) /\ Matches(n2, pattern1.p, pattern1.s)
    \/ StripSuffix(n1) = StripSuffix(n2)

AllTypeNames(cs, prims) ==
    [i \in 1..Len(prims.types) |->
        [name |-> prims.types[i].k, file |-> prims.filePath, line |-> prims.types[i].v.line]]
    \o Flatten([c \in 1..Len(cs) |->
          [t \in 1..Len(cs[c].types) |->
              [name |-> cs[c].types[t].name, file |-> cs[c].filePath,
               line |-> cs[c].types[t].line]]])

\* allTypeNames.find(t => t.name === name), which always finds one
FindName(all, name) == all[CHOOSE i \in 1..Len(all) :
                              all[i].name = name /\ \A j \in 1..(i - 1) : all[j].name # name]

\* Math.round(ratio * 100)
Percent(ratio) == (200 * ratio.num + ratio.den) \div (2 * ratio.den)

SimilarIssue(all, sim) ==
    LET type1 == FindName(all, sim.name1)
        type2 == FindName(all, sim.name2)
    IN Issue("warning", "naming",
             "Similar names detected: '" \o sim.name1 \o "' and '" \o sim.name2
                 \o "' (" \o ToString(Percent(sim.ratio)) \o "% similar)",
             type1.file, type1.line,
             "Consider standardizing to one name. Found in: " \o type1.file
                 \o " and " \o type2.file)

\* RefIssue, raised as an error
RefIssueAsError(contract, type) ==
    LET entityName == SubSeq(type.name, 1, Len(type.name) - 3)
    IN Issue("error", "naming",
             "Reference type '" \o type.name \o "' has no corresponding full entity '"
                 \o entityName \o "'",
             contract.filePath, type.line,
             "Consider defining '" \o entityName
                 \o "' or renaming if this is not a reference type")

RefIssue(contract, type) ==
    LET entityName == SubSeq(type.name, 1, Len(type.name) - 3)
    IN Issue("warning", "naming",
             "Reference type '" \o type.name \o "' has no corresponding full entity '"
                 \o entityName \o "'",
             contract.filePath, type.line,
             "Consider defining '" \o entityName
                 \o "' or renaming if this is not a reference type")

\* RefLoop without the set of names already warned about
RECURSIVE RefLoopEveryContract(_, _, _, _, _, _)
RefLoopEveryContract(cs, prims, all, c, t, st) ==
    IF c > Len(cs) THEN st
    ELSE IF t > Len(cs[c].types) THEN RefLoopEveryContract(cs, prims, all, c + 1, 1, st)
    ELSE LET type == cs[c].types[t]
             entityName == SubSeq(type.name, 1, Len(type.name) - 3)
             hasFullEntity == \E k \in 1..Len(all) : all[k].name = entityName
             inPrimitives == MapHas(prims.types, entityName)
             warn == /\ EndsWith(type.name, "Ref")
                     /\ type.kind = "interface"
                     /\ ~hasFullEntity
                     /\ ~inPrimitives
         IN RefLoopEveryContract(cs, prims, all, c, t + 1,
                IF warn
                THEN [issues |-> Append(st.issues, RefIssue(cs[c], type)),
                      warnedRefTypes |-> st.warnedRefTypes]
                ELSE st)

\* the loop over the types of every contract that warns about orphaned Ref types
RECURSIVE RefLoop(_, _, _, _, _, _)
RefLoop(cs, prims, all, c, t, st) ==
    IF c > Len(cs) THEN st
    ELSE IF t > Len(cs[c].types) THEN RefLoop(cs, prims, all, c + 1, 1, st)
    ELSE LET type == cs[c].types[t]
             entityName == SubSeq(type.name, 1, Len(type.name) - 3)
             hasFullEntity == \E k \in 1..Len(all) : all[k].name = entityName
             inPrimitives == MapHas(prims.types, entityName)
             warn == /\ EndsWith(type.name, "Ref")
                     /\ type.kind = "interface"
                     /\ type.name \notin st.warnedRefTypes
                     /\ ~hasFullEntity
                     /\ ~inPrimitives
         IN RefLoop(cs, prims, all, c, t + 1,
                IF warn
                THEN [issues |-> Append(st.issues, RefIssue(cs[c], type)),
                      warnedRefTypes |-> st.warnedRefTypes \cup {type.name}]
                ELSE st)

NamingThreshold == 85

checkNamingConsistency(cs, prims) ==
    LET all == AllTypeNames(cs, prims)
        similar == findSimilarNames([i \in 1..Len(all) |-> all[i].name], NamingThreshold)
        reported == SelectSeq(similar, LAMBDA sim : ~isExpectedPair(sim.name1, sim.name2))
    IN [i \in 1..Len(reported) |-> SimilarIssue(all, reported[i])]
       \o RefLoop(cs, prims, all, 1, 1, [issues |-> <<>>, warnedRefTypes |-> {}]).issues

(***************************************************************************)
(* Structural shape comparison.                                            *)
(***************************************************************************)
normalize(t) == StripSpaces(ToLowerCase(t))

equivalences ==
    << <<"string", "String">>, <<"number", "Number">>, <<"boolean", "Boolean">>,
       <<"Date", "string">> >>

\* a table lookup that tries each pair in the listed order only
areTypesCompatibleOneWay(type1, type2) ==
    \/ normalize(type1) = normalize(type2)
    \/ \E i \in 1..Len(equivalences) :
          type1 = equivalences[i][1] /\ type2 = equivalences[i][2]

areTypesCompatible(type1, type2) ==
    \/ normalize(type1) = normalize(type2)
    \/ \E i \in 1..Len(equivalences) :
          LET a == equivalences[i][1]
              b == equivalences[i][2]
          IN (type1 = a /\ type2 = b) \/ (type1 = b /\ type2 = a)

\* typesByName: name -> the declarations of that name, the shared vocabulary's
\* first, then the contracts' in input order
RECURSIVE TypesByNameLoop(_, _, _, _)
TypesByNameLoop(cs, c, t, m) ==
    IF c > Len(cs) THEN m
    ELSE IF t > Len(cs[c].types) THEN TypesByNameLoop(cs, c + 1, 1, m)
    ELSE LET type == cs[c].types[t]
             old == IF MapHas(m, type.name) THEN MapGet(m, type.name) ELSE <<>>
         IN TypesByNameLoop(cs, c, t + 1,
                MapSet(m, type.name, Append(old, [type |-> type, file |-> cs[c].filePath])))

TypesByName(cs, prims) ==
    TypesByNameLoop(cs, 1, 1,
        MapFrom(<<>>, [i \in 1..Len(prims.types) |->
            [k |-> prims.types[i].k,
             v |-> <<[type |-> prims.types[i].v, file |-> prims.filePath]>>]]))

\* new Map(type.properties.map(p => [p.name, p]))
PropsMap(type) ==
    MapFrom(<<>>, [i \in 1..Len(type.properties) |->
        [k |-> type.properties[i].name, v |-> type.properties[i]]])

MissingIssue(name, propName, prop, baseline, current) ==
    Issue("error", "type-shape",
          "Type '" \o name \o "' is missing property '" \o propName \o "' in " \o current.file,
          current.file, current.type.line,
          "Add property '" \o propName \o ": " \o prop.type \o "' to match " \o baseline.file)

MismatchIssue(name, propName, baseProp, prop, baseline, current) ==
    Issue("error", "type-shape",
          "Type mismatch for '" \o name \o "." \o propName \o "': '" \o baseProp.type
              \o "' in " \o baseline.file \o " vs '" \o prop.type \o "' in " \o current.file,
          current.file, current.type.line,
          "Ensure '" \o propName \o "' has consistent type across all definitions")

OptWord(optional) == IF optional THEN "optional" ELSE "required"

\* OptionalityIssue, raised as an error
OptionalityError(name, propName, baseProp, prop, baseline, current) ==
    Issue("error", "type-shape",
          "Optionality mismatch for '" \o name \o "." \o propName \o "': "
              \o OptWord(baseProp.optional) \o " in " \o baseline.file \o " vs "
              \o OptWord(prop.optional) \o " in " \o current.file,
          current.file, current.type.line,
          "Ensure '" \o propName \o "' has consistent optionality")

OptionalityIssue(name, propName, baseProp, prop, baseline, current) ==
    Issue("warning", "type-shape",
          "Optionality mismatch for '" \o name \o "." \o propName \o "': "
              \o OptWord(baseProp.optional) \o " in " \o baseline.file \o " vs "
              \o OptWord(prop.optional) \o " in " \o current.file,
          current.file, current.type.line,
          "Ensure '" \o propName \o "' has consistent optionality")

\* a comparison that pairs the properties by position instead of by name
CompareToBaselineByPosition(name, baseline, current) ==
    LET bp == baseline.type.properties
        cp == current.type.properties
        At(i) ==
            IF i > Len(cp) \/ cp[i].name # bp[i].name
            THEN <<MissingIssue(name, bp[i].name, bp[i], baseline, current)>>
            ELSE (IF bp[i].type # cp[i].type /\ ~areTypesCompatible(bp[i].type, cp[i].type)
                  THEN <<MismatchIssue(name, cp[i].name, bp[i], cp[i], baseline, current)>>
                  ELSE <<>>)
                 \o (IF bp[i].optional # cp[i].optional
                     THEN <<OptionalityIssue(name, cp[i].name, bp[i], cp[i], baseline, current)>>
                     ELSE <<>>)
    IN Flatten([i \in 1..Len(bp) |-> At(i)])

\* the issues of one `current` interface against the baseline
CompareToBaseline(name, baseline, current) ==
    LET baselineProps == PropsMap(baseline.type)
        currentProps == PropsMap(current.type)
        Missing(e) ==
            IF ~MapHas(currentProps, e.k)
            THEN <<MissingIssue(name, e.k, e.v, baseline, current)>>
            ELSE <<>>
        Shared(e) ==
            IF ~MapHas(baselineProps, e.k) THEN <<>>
            ELSE LET baseProp == MapGet(baselineProps, e.k)
                 IN (IF baseProp.type # e.v.type /\ ~areTypesCompatible(baseProp.type, e.v.type)
                     THEN <<MismatchIssue(name, e.k, baseProp, e.v, baseline, current)>>
                     ELSE <<>>)
                    \o (IF baseProp.optional # e.v.optional
                        THEN <<OptionalityIssue(name, e.k, baseProp, e.v, baseline, current)>>
                        ELSE <<>>)
    IN Flatten([i \in 1..Len(baselineProps) |-> Missing(baselineProps[i])])
       \o Flatten([i \in 1..Len(currentProps) |-> Shared(currentProps[i])])

\* the issues for one name of typesByName
CompareDefinitions(name, definitions) ==
    IF Len(definitions) <= 1 THEN <<>>
    ELSE LET interfaces == SelectSeq(definitions, LAMBDA d : d.type.kind = "interface")
         IN IF Len(interfaces) > 1
            THEN Flatten([i \in 1..(Len(interfaces) - 1) |->
                     CompareToBaseline(name, interfaces[1], interfaces[i + 1])])
            ELSE <<>>

KindIssue(contract, imp, localDef, primitiveDef) ==
    Issue("error", "type-shape",
          "Import '" \o imp.name \o "' is redefined as " \o localDef.kind
              \o " but primitives defines it as " \o primitiveDef.kind,
          contract.filePath, localDef.line,
          "Remove local definition and use the imported type, or rename to avoid conflict")

\* contract.types.find(t => t.name === name), when there is one
FindType(types, name) ==
    types[CHOOSE i \in 1..Len(types) :
              types[i].name = name /\ \A j \in 1..(i - 1) : types[j].name # name]

\* KindIssues, reporting a redeclaration only when its properties differ too
KindIssuesComparingFields(contract, prims) ==
    LET ForImport(imp) ==
            IF /\ \E t \in 1..Len(contract.types) : contract.types[t].name = imp.name
               /\ MapHas(prims.types, imp.name)
               /\ FindType(contract.types, imp.name).kind # MapGet(prims.types, imp.name).kind
               /\ FindType(contract.types, imp.name).properties
                      # MapGet(prims.types, imp.name).properties
            THEN <<KindIssue(contract, imp, FindType(contract.types, imp.name),
                             MapGet(prims.types, imp.name))>>
            ELSE <<>>
    IN Flatten([i \in 1..Len(contract.imports) |-> ForImport(contract.imports[i])])

\* the second loop: an imported name redeclared locally with another kind
KindIssues(contract, prims) ==
    LET ForImport(imp) ==
            IF /\ \E t \in 1..Len(contract.types) : contract.types[t].name = imp.name
               /\ MapHas(prims.types, imp.name)
               /\ FindType(contract.types, imp.name).kind # MapGet(prims.types, imp.name).kind
            THEN <<KindIssue(contract, imp, FindType(contract.types, imp.name),
                             MapGet(prims.types, imp.name))>>
            ELSE <<>>
    IN Flatten([i \in 1..Len(contract.imports) |-> ForImport(contract.imports[i])])

checkTypeShapeCompatibility(cs, prims) ==
    LET typesByName == TypesByName(cs, prims)
    IN Flatten([n \in 1..Len(typesByName) |->
           CompareDefinitions(typesByName[n].k, typesByName[n].v)])
       \o Flatten([c \in 1..Len(cs) |-> KindIssues(cs[c], prims)])

(***************************************************************************)
(* Report.                                                                 *)
(***************************************************************************)
\* a count that does not look at the severity
IssueCount(issues) == Len(issues)

ErrorCount(issues) == Len(SelectSeq(issues, LAMBDA i : i.severity = "error"))

RECURSIVE Sum(_)
Sum(s) == IF Len(s) = 0 THEN 0 ELSE Head(s) + Sum(Tail(s))

\* the timestamp is left out: it is the only field that is not a function of
\* the arguments
generateReport(prims, cs, issues, dependencyGraph) ==
    [primitivesFile |-> prims.filePath,
     contractFiles |-> [c \in 1..Len(cs) |-> cs[c].filePath],
     issues |-> issues,
     stats |-> [totalContracts |-> Len(cs),
                totalTypes |-> Sum([c \in 1..Len(cs) |-> Len(cs[c].types)]) + Len(prims.types),
                totalImports |-> Sum([c \in 1..Len(cs) |-> Len(cs[c].imports)])],
     dependencyGraph |-> dependencyGraph,
     passed |-> ErrorCount(issues) = 0]

(***************************************************************************)
(* The run: verifyContracts, one action per stage.  A file of the file     *)
(* system holds what the extractor finds in it, [imports, types], and     *)
(* whether it can be read; reading an unreadable file throws.              *)
(***************************************************************************)
NoValue == "undefined"

\* parseSharedPrimitives: types.set(type.name, type) for each extracted type
SharedPrimitives(path, doc) ==
    [types |-> MapFrom(<<>>, [i \in 1..Len(doc.types) |->
                                 [k |-> doc.types[i].name, v |-> doc.types[i]]]),
     filePath |-> path]

\* parseContract: the fields of ParsedContract the checks read
ParsedContract(path, doc) ==
    [filePath |-> path, imports |-> doc.imports, types |-> doc.types]

ParsePrimitives ==
    /\ pc = "start"
    /\ files[primitivesPath].readable
    /\ primitives' = SharedPrimitives(primitivesPath, files[primitivesPath])
    /\ pc' = "contracts"
    /\ UNCHANGED <<files, primitivesPath, contractPaths, contracts, allIssues, graph, report>>
    /\ UNCHANGED <<dfsVars, cliVars, scan>>

\* ParseContract, taking an unreadable file for an empty contract
ParseContractOrEmpty ==
    /\ pc = "contracts"
    /\ Len(contracts) < Len(contractPaths)
    /\ LET contractPath == contractPaths[Len(contracts) + 1]
       IN contracts' = Append(contracts, ParsedContract(contractPath, files[contractPath]))
    /\ UNCHANGED <<pc, files, primitivesPath, contractPaths, primitives, allIssues, graph, report>>
    /\ UNCHANGED <<dfsVars, cliVars, scan>>

ParseContract ==
    /\ pc = "contracts"
    /\ Len(contracts) < Len(contractPaths)
    /\ LET contractPath == contractPaths[Len(contracts) + 1]
       IN /\ files[contractPath].readable
          /\ contracts' = Append(contracts, ParsedContract(contractPath, files[contractPath]))
    /\ UNCHANGED <<pc, files, primitivesPath, contractPaths, primitives, allIssues, graph, report>>
    /\ UNCHANGED <<dfsVars, cliVars, scan>>

\* fs.readFileSync throws: verifyContracts is left by the exception
ReadFails ==
    /\ \/ pc = "start" /\ ~files[primitivesPath].readable
       \/ /\ pc = "contracts"
          /\ Len(contracts) < Len(contractPaths)
          /\ ~files[contractPaths[Len(contracts) + 1]].readable
    /\ pc' = "thrown"
    /\ UNCHANGED <<files, primitivesPath, contractPaths, primitives, contracts, allIssues,
                   graph, report>>
    /\ UNCHANGED <<dfsVars, cliVars, scan>>

CheckImports ==
    /\ pc = "contracts"
    /\ Len(contracts) = Len(contractPaths)
    /\ allIssues' = allIssues \o checkImportResolution(contracts, primitives)
    /\ pc' = "circular"
    /\ UNCHANGED <<files, primitivesPath, contractPaths, primitives, contracts, graph, report>>
    /\ UNCHANGED <<dfsVars, cliVars, scan>>

\* CheckCircular, walking the contracts in an order that is not fixed
CheckCircularAnyOrder ==
    /\ pc = "circular"
    /\ \E backwards \in BOOLEAN :
          LET n == Len(contracts)
              cs == IF backwards THEN [i \in 1..n |-> contracts[n + 1 - i]] ELSE contracts
              r == checkCircularDependencies(cs)
          IN /\ graph' = r.graph
             /\ allIssues' = allIssues \o r.issues
    /\ pc' = "naming"
    /\ UNCHANGED <<files, primitivesPath, contractPaths, primitives, contracts, report>>
    /\ UNCHANGED <<dfsVars, cliVars, scan>>

CheckCircular ==
    /\ pc = "circular"
    /\ LET r == checkCircularDependencies(contracts)
       IN /\ graph' = r.graph
          /\ allIssues' = allIssues \o r.issues
    /\ pc' = "naming"
    /\ UNCHANGED <<files, primitivesPath, contractPaths, primitives, contracts, report>>
    /\ UNCHANGED <<dfsVars, cliVars, scan>>

\* CheckNaming, skipped once an earlier check has found an error
CheckNamingUnlessErrors ==
    /\ pc = "naming"
    /\ allIssues' = IF ErrorCount(allIssues) = 0
                    THEN allIssues \o checkNamingConsistency(contracts, primitives)
                    ELSE allIssues
    /\ pc' = "shape"
    /\ UNCHANGED <<files, primitivesPath, contractPaths, primitives, contracts, graph, report>>
    /\ UNCHANGED <<dfsVars, cliVars, scan>>

CheckNaming ==
    /\ pc = "naming"
    /\ allIssues' = allIssues \o checkNamingConsistency(contracts, primitives)
    /\ pc' = "shape"
    /\ UNCHANGED <<files, primitivesPath, contractPaths, primitives, contracts, graph, report>>
    /\ UNCHANGED <<dfsVars, cliVars, scan>>

CheckShape ==
    /\ pc = "shape"
    /\ allIssues' = allIssues \o checkTypeShapeCompatibility(contracts, primitives)
    /\ pc' = "report"
    /\ UNCHANGED <<files, primitivesPath, contractPaths, primitives, contracts, graph, report>>
    /\ UNCHANGED <<dfsVars, cliVars, scan>>

GenerateReport ==
    /\ pc = "report"
    /\ report' = generateReport(primitives, contracts, allIssues, graph)
    /\ pc' = "done"
    /\ UNCHANGED <<files, primitivesPath, contractPaths, primitives, contracts, allIssues, graph>>
    /\ UNCHANGED <<dfsVars, cliVars, scan>>

Next ==
    \/ ParsePrimitives
    \/ ParseContract
    \/ ReadFails
    \/ CheckImports
    \/ CheckCircular
    \/ CheckNaming
    \/ CheckShape
    \/ GenerateReport

(***************************************************************************)
(* Documents.                                                              *)
(***************************************************************************)
Prop(name, type, optional) == [name |-> name, type |-> type, optional |-> optional]

Interface(name, props, line) ==
    [name |-> name, kind |-> "interface", properties |-> props, line |-> line]

Alias(name, line) == [name |-> name, kind |-> "type", properties |-> <<>>, line |-> line]

\* an enum's members are properties of type 'enum-value'
Enum(name, members, line) ==
    [name |-> name, kind |-> "enum",
     properties |-> [i \in 1..Len(members) |-> Prop(members[i], "enum-value", FALSE)],
     line |-> line]

Import(name, source, line) == [name |-> name, source |-> source, line |-> line]

Doc(imports, types) == [readable |-> TRUE, imports |-> imports, types |-> types]

\* a file that is missing or unreadable
Unreadable == [readable |-> FALSE, imports |-> <<>>, types |-> <<>>]

\* the sequences over S of length at most n
SeqsUpTo(S, n) == UNION { [1..k -> S] : k \in 0..n }

\* the loop of parseContract is not running
ScanIdle == scan = NoValue

\* verifyContracts called as a function: no command line, no process exit
CliIdle ==
    /\ options = NoValue
    /\ exited = <<>>

\* dfs is idle in the specifications of the run
DfsIdle ==
    /\ dGraph = <<>>
    /\ dStack = <<>>
    /\ dVisited = {}
    /\ dRecStack = {}
    /\ dCycles = <<>>
    /\ dKey = 0
    /\ dCalls = <<>>

\* the state verifyContracts starts in, for a file system and its options
RunStart(fsys, primPath, paths) ==
    /\ pc = "start"
    /\ files = fsys
    /\ primitivesPath = primPath
    /\ contractPaths = paths
    /\ primitives = NoValue
    /\ contracts = <<>>
    /\ allIssues = <<>>
    /\ graph = NoValue
    /\ report = NoValue
    /\ DfsIdle
    /\ CliIdle
    /\ ScanIdle

(***************************************************************************)
(* Import resolution over a shared vocabulary and two contracts: the first *)
(* contract's imports range over names declared in the shared vocabulary,  *)
(* in the other contract, in the contract itself or nowhere, from every    *)
(* kind of source module.                                                  *)
(***************************************************************************)
PrimitivesPath == "shared/primitives.md"
OrderPath == "contracts/ORDER-CONTRACT.md"
CustomerPath == "contracts/CUSTOMER-CONTRACT.md"

OrderVocabulary ==
    Doc(<<>>, <<Alias("OrderId", 3),
                Enum("OrderStatus", <<"PENDING", "PAID", "SHIPPED", "CANCELLED">>, 4)>>)

OrderRecord ==
    Interface("Order", <<Prop("id", "OrderId", FALSE), Prop("status", "OrderStatus", FALSE)>>, 9)

CustomerDoc == Doc(<<>>, <<Interface("Customer", <<Prop("id", "string", FALSE)>>, 5)>>)

ImportNames == {"OrderStatus", "Customer", "Order", "Ghost"}

ImportSources ==
    {"zod", "@acme/types", "./helpers", "./shared.types", "../orders/types",
     "../shared/shared.types", "react"}

ImportAtoms == [name : ImportNames, source : ImportSources]

\* imports in document order, one per line from line 2 on
ImportList(atoms) == [i \in 1..Len(atoms) |-> Import(atoms[i].name, atoms[i].source, i + 1)]

\* file systems in which one of the three files cannot be read
OneUnreadable(fsys) ==
    { [fsys EXCEPT ![p] = Unreadable] : p \in DOMAIN fsys }

InitImports ==
    \E atoms \in SeqsUpTo(ImportAtoms, MaxImports) :
        LET fsys == (PrimitivesPath :> OrderVocabulary)
                    @@ (OrderPath :> Doc(ImportList(atoms), <<OrderRecord>>))
                    @@ (CustomerPath :> CustomerDoc)
        IN \/ RunStart(fsys, PrimitivesPath, <<OrderPath, CustomerPath>>)
           \/ /\ atoms = <<>>
              /\ \E broken \in OneUnreadable(fsys) :
                    RunStart(broken, PrimitivesPath, <<OrderPath, CustomerPath>>)

SpecImports == InitImports /\ [][Next]_vars

(***************************************************************************)
(* Properties of import resolution, read off the report of a finished run. *)
(***************************************************************************)
Count(s, P(_)) == Cardinality({ i \in 1..Len(s) : P(s[i]) })

Quoted(name) == "'" \o name \o "'"

DeclaredIn(path) == { files[path].types[t].name : t \in 1..Len(files[path].types) }

\* the names the shared vocabulary or some contract declares
DeclaredNames ==
    DeclaredIn(primitivesPath) \cup UNION { DeclaredIn(p) : p \in Range(contractPaths) }

\* the imports of the contracts, each with the path of its contract
AllImports ==
    UNION { { [path |-> p, imp |-> files[p].imports[i]] : i \in 1..Len(files[p].imports) } :
              p \in Range(contractPaths) }

\* the 'import' errors of the report for one import of one contract
UnresolvedFor(x) ==
    Count(report.issues,
          LAMBDA i : /\ i.category = "import"
                     /\ i.severity = "error"
                     /\ i.file = x.path
                     /\ i.line = x.imp.line
                     /\ Includes(i.message, Quoted(x.imp.name)))

\* the source modules import resolution leaves alone: the listed libraries,
\* scoped packages, and relative paths that do not mention 'shared'
SkippedSource(source) ==
    \/ source \in {"zod", "express", "prisma", "@prisma/client", "date-fns", "lodash"}
    \/ CharAt(source, 1) = "@"
    \/ CharAt(source, 1) = "." /\ ~Includes(source, "shared")

\* C2: in the report of a finished run, every import whose source module is
\* not skipped has exactly one 'import' error if its name is declared neither
\* in the shared vocabulary nor in any contract, and none if it is declared.
C2_UnresolvedIffUndeclared ==
    pc = "done" =>
        \A x \in AllImports :
            ~SkippedSource(x.imp.source) =>
                UnresolvedFor(x) = (IF x.imp.name \in DeclaredNames THEN 0 ELSE 1)

\* a finished run with a flagged import of an undeclared name and an unflagged
\* import of a name that only another contract declares
C2_Witness ==
    /\ pc = "done"
    /\ \E x, y \in AllImports :
          /\ ~SkippedSource(x.imp.source) /\ x.imp.name \notin DeclaredNames
          /\ UnresolvedFor(x) = 1
          /\ ~SkippedSource(y.imp.source) /\ y.imp.name \in DeclaredIn(CustomerPath)
          /\ UnresolvedFor(y) = 0

\* the type expressions of the fields of the records a document declares
FieldTypes(path) ==
    UNION { { files[path].types[t].properties[f].type :
                f \in 1..Len(files[path].types[t].properties) } :
              t \in { u \in 1..Len(files[path].types) :
                        files[path].types[u].kind = "interface" } }

ImportedNames(path) == { files[path].imports[i].name : i \in 1..Len(files[path].imports) }

\* C3: a contract that uses a name of the shared vocabulary as the type of a
\* field of one of its records without importing it gets an unresolved-import
\* error that names the identifier.
C3_UnimportedUseReported ==
    pc = "done" =>
        \A p \in Range(contractPaths) :
            \A name \in (FieldTypes(p) \cap DeclaredIn(primitivesPath)) \ ImportedNames(p) :
                \E i \in 1..Len(report.issues) :
                    /\ report.issues[i].category = "import"
                    /\ report.issues[i].file = p
                    /\ Includes(report.issues[i].message, Quoted(name))

\* the source modules the claim takes to be skipped: the listed libraries and
\* same-directory relative paths that do not point at the shared vocabulary
ClaimedSkippedSource(source) ==
    \/ source \in {"zod", "express", "prisma", "@prisma/client", "date-fns", "lodash"}
    \/ StartsWith(source, "./") /\ ~Includes(source, "shared")

\* C4 as stated: an import is never flagged when its source is a listed
\* library or a same-directory relative path not pointing at the shared
\* vocabulary, and every other import of an undeclared name, parent-directory
\* paths and unlisted packages included, is flagged.
C4_AsStated ==
    pc = "done" =>
        \A x \in AllImports :
            /\ ClaimedSkippedSource(x.imp.source) => UnresolvedFor(x) = 0
            /\ (~ClaimedSkippedSource(x.imp.source) /\ x.imp.name \notin DeclaredNames)
                  => UnresolvedFor(x) >= 1

\* C4, amended: an import is never flagged when its source is a listed
\* library, begins with '@', or is a relative path (same or parent directory)
\* that does not contain 'shared'; every other import of an undeclared name is
\* flagged.
C4_SkippedExactly ==
    pc = "done" =>
        \A x \in AllImports :
            /\ SkippedSource(x.imp.source) => UnresolvedFor(x) = 0
            /\ (~SkippedSource(x.imp.source) /\ x.imp.name \notin DeclaredNames)
                  => UnresolvedFor(x) >= 1

\* a finished run in which an undeclared name imported from a parent-directory
\* path is skipped and the same name imported from an unlisted package is flagged
C4_Witness ==
    /\ pc = "done"
    /\ \E x, y \in AllImports :
          /\ x.imp.name \notin DeclaredNames /\ y.imp.name = x.imp.name
          /\ StartsWith(x.imp.source, "../") /\ UnresolvedFor(x) = 0
          /\ y.imp.source = "react" /\ UnresolvedFor(y) = 1

(***************************************************************************)
(* detectCycles step by step: the loop over graph.keys(), and each dfs     *)
(* call as a frame [node, path, idx] on the call stack, idx the position   *)
(* of its loop over the neighbours.  When detectCycles has returned, the   *)
(* caller turns each cycle into an issue.                                  *)
(***************************************************************************)
Top == dStack[Len(dStack)]

TopNeighbors == Neighbors(dGraph, Top.node)

\* the entry of dfs(node, path): lines 183-185, on top of the frames `below`
Enter(node, path, below) ==
    /\ dVisited' = dVisited \cup {node}
    /\ dRecStack' = dRecStack \cup {node}
    /\ dStack' = Append(below, [node |-> node, path |-> Append(path, node), idx |-> 1])
    /\ dCalls' = Append(dCalls, node)

\* the top frame with its loop over the neighbours moved on by one
Advanced == [dStack EXCEPT ![Len(dStack)].idx = @ + 1]

\* for (const node of graph.keys()) if (!visited.has(node)) dfs(node, [])
DfsFromKey ==
    /\ pc = "detect"
    /\ dStack = <<>>
    /\ dKey <= Len(dGraph)
    /\ MapKeys(dGraph)[dKey] \notin dVisited
    /\ Enter(MapKeys(dGraph)[dKey], <<>>, <<>>)
    /\ dKey' = dKey + 1
    /\ UNCHANGED <<dGraph, dCycles>>
    /\ UNCHANGED <<runVars, cliVars, scan>>

SkipKey ==
    /\ pc = "detect"
    /\ dStack = <<>>
    /\ dKey <= Len(dGraph)
    /\ MapKeys(dGraph)[dKey] \in dVisited
    /\ dKey' = dKey + 1
    /\ UNCHANGED <<dGraph, dStack, dVisited, dRecStack, dCycles, dCalls>>
    /\ UNCHANGED <<runVars, cliVars, scan>>

\* DfsDescend, testing the recursion stack where the code tests visited
DfsDescendOffStack ==
    /\ pc = "detect"
    /\ dStack # <<>>
    /\ Top.idx <= Len(TopNeighbors)
    /\ TopNeighbors[Top.idx] \notin dRecStack
    /\ Enter(TopNeighbors[Top.idx], Top.path, Advanced)
    /\ UNCHANGED <<dGraph, dCycles, dKey>>
    /\ UNCHANGED <<runVars, cliVars, scan>>

\* if (!visited.has(neighbor)) dfs(neighbor, [...path])
DfsDescend ==
    /\ pc = "detect"
    /\ dStack # <<>>
    /\ Top.idx <= Len(TopNeighbors)
    /\ TopNeighbors[Top.idx] \notin dVisited
    /\ Enter(TopNeighbors[Top.idx], Top.path, Advanced)
    /\ UNCHANGED <<dGraph, dCycles, dKey>>
    /\ UNCHANGED <<runVars, cliVars, scan>>

\* DfsRecordCycle, taking every visited neighbour for a back edge:
\* path.slice(-1) is the last element when the neighbour is not on the path
DfsRecordVisited ==
    /\ pc = "detect"
    /\ dStack # <<>>
    /\ Top.idx <= Len(TopNeighbors)
    /\ TopNeighbors[Top.idx] \in dVisited
    /\ dCycles' = IF IndexOf(Top.path, TopNeighbors[Top.idx]) # 0
                  THEN Append(dCycles, CycleFrom(Top.path, TopNeighbors[Top.idx]))
                  ELSE Append(dCycles, <<Top.node, TopNeighbors[Top.idx]>>)
    /\ dStack' = Advanced
    /\ UNCHANGED <<dGraph, dVisited, dRecStack, dKey, dCalls>>
    /\ UNCHANGED <<runVars, cliVars, scan>>

\* else if (recStack.has(neighbor)): the slice of the path is pushed as a cycle
DfsRecordCycle ==
    /\ pc = "detect"
    /\ dStack # <<>>
    /\ Top.idx <= Len(TopNeighbors)
    /\ TopNeighbors[Top.idx] \in dVisited
    /\ TopNeighbors[Top.idx] \in dRecStack
    /\ dCycles' = IF IndexOf(Top.path, TopNeighbors[Top.idx]) # 0
                  THEN Append(dCycles, CycleFrom(Top.path, TopNeighbors[Top.idx]))
                  ELSE dCycles
    /\ dStack' = Advanced
    /\ UNCHANGED <<dGraph, dVisited, dRecStack, dKey, dCalls>>
    /\ UNCHANGED <<runVars, cliVars, scan>>

\* a neighbour that is visited and off the recursion stack is passed over
DfsSkipNeighbor ==
    /\ pc = "detect"
    /\ dStack # <<>>
    /\ Top.idx <= Len(TopNeighbors)
    /\ TopNeighbors[Top.idx] \in dVisited
    /\ TopNeighbors[Top.idx] \notin dRecStack
    /\ dStack' = Advanced
    /\ UNCHANGED <<dGraph, dVisited, dRecStack, dCycles, dKey, dCalls>>
    /\ UNCHANGED <<runVars, cliVars, scan>>

\* recStack.delete(node) and the return of dfs
DfsReturn ==
    /\ pc = "detect"
    /\ dStack # <<>>
    /\ Top.idx > Len(TopNeighbors)
    /\ dRecStack' = dRecStack \ {Top.node}
    /\ dStack' = SubSeq(dStack, 1, Len(dStack) - 1)
    /\ UNCHANGED <<dGraph, dVisited, dCycles, dKey, dCalls>>
    /\ UNCHANGED <<runVars, cliVars, scan>>

\* return cycles, and the caller's loop that pushes one issue per cycle
EmitCycleIssues ==
    /\ pc = "detect"
    /\ dStack = <<>>
    /\ dKey > Len(dGraph)
    /\ allIssues' = [i \in 1..Len(dCycles) |-> CycleIssue(dCycles[i])]
    /\ pc' = "detected"
    /\ UNCHANGED <<files, primitivesPath, contractPaths, primitives, contracts, graph, report>>
    /\ UNCHANGED <<dfsVars, cliVars, scan>>

NextDfs ==
    \/ DfsFromKey
    \/ SkipKey
    \/ DfsDescend
    \/ DfsRecordCycle
    \/ DfsSkipNeighbor
    \/ DfsReturn
    \/ EmitCycleIssues

\* the basenames of the contracts
NodeNames == {"a.md", "b.md", "c.md"}

\* the sequences over S without repetition, of length at most n
DistinctSeqs(S, n) ==
    { s \in SeqsUpTo(S, n) : \A i, j \in 1..Len(s) : i # j => s[i] # s[j] }

\* the graphs checkCircularDependencies can build: one key per basename, in
\* any order, each with a list of distinct basenames of contracts
Graphs ==
    UNION { { [i \in 1..Len(keys) |-> [k |-> keys[i], v |-> deps[i]]] :
                deps \in [1..Len(keys) -> DistinctSeqs(Range(keys), MaxDeps)] } :
              keys \in DistinctSeqs(NodeNames, Cardinality(NodeNames)) \ {<<>>} }

InitDfs ==
    /\ dGraph \in Graphs
    /\ dStack = <<>>
    /\ dVisited = {}
    /\ dRecStack = {}
    /\ dCycles = <<>>
    /\ dKey = 1
    /\ dCalls = <<>>
    /\ CliIdle
    /\ ScanIdle
    /\ pc = "detect"
    /\ files = <<>>
    /\ primitivesPath = ""
    /\ contractPaths = <<>>
    /\ primitives = NoValue
    /\ contracts = <<>>
    /\ allIssues = <<>>
    /\ graph = NoValue
    /\ report = NoValue

SpecDfs == InitDfs /\ [][NextDfs]_vars

(***************************************************************************)
(* Properties of cycle detection.                                          *)
(***************************************************************************)
Nodes(g) == { g[i].k : i \in 1..Len(g) }

Edges(g) == UNION { { <<g[i].k, g[i].v[j]>> : j \in 1..Len(g[i].v) } : i \in 1..Len(g) }

\* R with the pairs joined by two of its pairs
Step(R) == R \cup { <<x[1][1], x[2][2]>> : x \in { y \in R \X R : y[1][2] = y[2][1] } }

RECURSIVE Closure(_, _)
Closure(R, n) == IF n = 0 THEN R ELSE Closure(Step(R), n - 1)

\* a directed cycle: some node reaches itself along one or more edges
HasCycle(g) == \E n \in Nodes(g) : <<n, n>> \in Closure(Edges(g), Len(g))

CircularIssues(issues) == SelectSeq(issues, LAMBDA i : i.category = "circular-dep")

\* the step machine returns what detectCycles computes as a function
DfsAgrees == pc = "detected" => dCycles = detectCycles(dGraph)

Only(g, n) == MapGet(g, n)[1]

\* three nodes whose only edges form one triangle x -> y -> z -> x
IsTriangle(g) ==
    /\ Len(g) = 3
    /\ \A i \in 1..3 : Len(g[i].v) = 1
    /\ LET x == g[1].k
           y == Only(g, x)
           z == Only(g, y)
       IN Cardinality({x, y, z}) = 3 /\ Only(g, z) = x

FrameRank(f) == Len(Neighbors(dGraph, f.node)) - f.idx + 2

RECURSIVE StackRank(_)
StackRank(st) == IF Len(st) = 0 THEN 0 ELSE FrameRank(Head(st)) + StackRank(Tail(st))

\* more than the work a new frame adds
RankWeight == Len(dGraph) + 2

\* a natural number that every step of detectCycles makes smaller
Rank ==
    Cardinality(Nodes(dGraph) \ dVisited) * RankWeight
    + (Len(dGraph) + 1 - dKey)
    + StackRank(dStack)
    + (IF pc = "detect" THEN 1 ELSE 0)

\* C7: detectCycles terminates on every graph, cycles and self-loops
\* included: every step lowers a natural-number rank and some step is
\* possible until it has returned; dfs is entered at most once per node; and
\* a node that is visited and off the recursion stack is never put back on it.
C7_Terminates ==
    /\ [][Rank' < Rank]_vars
    /\ [](Rank >= 0)
    /\ [](pc = "detected" \/ ENABLED NextDfs)
    /\ [](\A i, j \in 1..Len(dCalls) : i # j => dCalls[i] # dCalls[j])
    /\ [][\A n \in dVisited \ dRecStack : n \notin dRecStack']_vars

\* detection has returned on a graph with a self-loop and a cycle through all
\* three nodes, after entering dfs on each of them
C7_Witness ==
    /\ pc = "detected"
    /\ \E n \in Nodes(dGraph) : <<n, n>> \in Edges(dGraph)
    /\ \A n, o \in Nodes(dGraph) : <<n, o>> \in Closure(Edges(dGraph), Len(dGraph))
    /\ Len(dGraph) = 3
    /\ Len(dCalls) = 3

(***************************************************************************)
(* The shape comparison, entered as verifyContracts enters it: the files   *)
(* are parsed and the first three checks have contributed their issues.    *)
(***************************************************************************)
AtShapeCheck(fsys, primPath, paths) ==
    LET prims == SharedPrimitives(primPath, fsys[primPath])
        cs == [i \in 1..Len(paths) |-> ParsedContract(paths[i], fsys[paths[i]])]
        circular == checkCircularDependencies(cs)
    IN /\ pc = "shape"
       /\ files = fsys
       /\ primitivesPath = primPath
       /\ contractPaths = paths
       /\ primitives = prims
       /\ contracts = cs
       /\ allIssues = checkImportResolution(cs, prims) \o circular.issues
                          \o checkNamingConsistency(cs, prims)
       /\ graph = circular.graph
       /\ report = NoValue
       /\ DfsIdle
       /\ CliIdle
       /\ ScanIdle

NextShape ==
    \/ CheckShape
    \/ GenerateReport

UserPath == "contracts/USER-CONTRACT.md"
BillingPath == "contracts/BILLING-CONTRACT.md"

\* the record every document of these runs may declare
RecordName == "Address"

AddressDoc(props, line) == Doc(<<>>, <<Interface(RecordName, props, line)>>)

\* the shared vocabulary with the record added to its declarations
VocabularyWith(props) ==
    Doc(<<>>, OrderVocabulary.types \o <<Interface(RecordName, props, 6)>>)

PropAtoms ==
    { Prop("id", "string", FALSE), Prop("id", "number", FALSE),
      Prop("phone", "string", FALSE), Prop("phone", "string", TRUE) }

PropLists == SeqsUpTo(PropAtoms, MaxProps)

\* what the shared vocabulary declares when two contracts declare the record too
VocabularyRecords == { <<Prop("id", "string", FALSE)>>, <<Prop("phone", "string", FALSE)>> }

InitShape ==
    \E r0 \in PropLists, r1 \in PropLists :
        \/ AtShapeCheck((PrimitivesPath :> VocabularyWith(r0))
                            @@ (UserPath :> AddressDoc(r1, 4)),
                        PrimitivesPath, <<UserPath>>)
        \/ AtShapeCheck((PrimitivesPath :> OrderVocabulary)
                            @@ (UserPath :> AddressDoc(r0, 4))
                            @@ (BillingPath :> AddressDoc(r1, 7)),
                        PrimitivesPath, <<UserPath, BillingPath>>)
        \/ \E r2 \in VocabularyRecords :
              AtShapeCheck((PrimitivesPath :> VocabularyWith(r2))
                               @@ (UserPath :> AddressDoc(r0, 4))
                               @@ (BillingPath :> AddressDoc(r1, 7)),
                           PrimitivesPath, <<UserPath, BillingPath>>)

SpecShape == InitShape /\ [][NextShape]_vars

(***************************************************************************)
(* Properties of the shape comparison.                                     *)
(***************************************************************************)
ShapeChecked == pc \in {"report", "done"}

\* the record declarations of a name: the shared vocabulary's, then the
\* contracts' in input order
RecordsOf(name) ==
    (IF \E i \in 1..Len(primitives.types) :
            primitives.types[i].k = name /\ primitives.types[i].v.kind = "interface"
     THEN <<[type |-> MapGet(primitives.types, name), file |-> primitives.filePath]>>
     ELSE <<>>)
    \o Flatten([c \in 1..Len(contracts) |->
          [t \in 1..Len(SelectSeq(contracts[c].types,
                                  LAMBDA d : d.name = name /\ d.kind = "interface")) |->
              [type |-> SelectSeq(contracts[c].types,
                                  LAMBDA d : d.name = name /\ d.kind = "interface")[t],
               file |-> contracts[c].filePath]]])

FieldNames(decl) == { decl.type.properties[i].name : i \in 1..Len(decl.type.properties) }

DistinctFields(decl) ==
    \A i, j \in 1..Len(decl.type.properties) :
        decl.type.properties[i].name = decl.type.properties[j].name => i = j

\* the same field names with the same type expressions and optionality
SameFields(d1, d2) ==
    \/ d1.type.properties = d2.type.properties
    \/ /\ DistinctFields(d1)
       /\ DistinctFields(d2)
       /\ Range(d1.type.properties) = Range(d2.type.properties)

ShapeIssues == SelectSeq(allIssues, LAMBDA i : i.category = "type-shape")

ShapeIssuesFor(name) ==
    SelectSeq(ShapeIssues, LAMBDA i : Includes(i.message, "'" \o name))

ShapeErrorNaming(name, field) ==
    \E i \in 1..Len(ShapeIssues) :
        /\ ShapeIssues[i].severity = "error"
        /\ Includes(ShapeIssues[i].message, "'" \o name)
        /\ \/ Includes(ShapeIssues[i].message, "'" \o field \o "'")
           \/ Includes(ShapeIssues[i].message, "." \o field \o "'")

\* C8: when the documents that declare a record of one name all declare it
\* with the same field names, the same type expressions and the same
\* optionality, checkTypeShapeCompatibility produces no issue for that name.
C8_IdenticalNoIssues ==
    (/\ ShapeChecked
     /\ Len(RecordsOf(RecordName)) >= 2
     /\ \A i, j \in 1..Len(RecordsOf(RecordName)) :
            SameFields(RecordsOf(RecordName)[i], RecordsOf(RecordName)[j]))
    => ShapeIssuesFor(RecordName) = <<>>

\* two documents declare the record with the same two fields in different
\* order, and the run has finished without a shape issue
C8_Witness ==
    /\ pc = "done"
    /\ Len(RecordsOf(RecordName)) = 2
    /\ Len(RecordsOf(RecordName)[1].type.properties) = 2
    /\ RecordsOf(RecordName)[1].type.properties # RecordsOf(RecordName)[2].type.properties
    /\ SameFields(RecordsOf(RecordName)[1], RecordsOf(RecordName)[2])
    /\ ShapeIssuesFor(RecordName) = <<>>
    /\ report.passed

\* C9: when two documents declare a record of one name and one declaration
\* lacks a field the other has, there is a 'type-shape' error naming that
\* field, whichever of the two declarations is the baseline.
C9_MissingFieldEitherOrder ==
    (/\ ShapeChecked
     /\ Len(RecordsOf(RecordName)) = 2)
    => \A f \in (FieldNames(RecordsOf(RecordName)[1]) \ FieldNames(RecordsOf(RecordName)[2]))
                \cup (FieldNames(RecordsOf(RecordName)[2]) \ FieldNames(RecordsOf(RecordName)[1])) :
           ShapeErrorNaming(RecordName, f)

(***************************************************************************)
(* Type expressions of a shared field: the words of the alias table in     *)
(* several spellings and every trimmed string over a small alphabet.       *)
(***************************************************************************)
TypeWords ==
    {"string", "String", "STRING", "Date", "date", "number", "Number", "boolean", "Boolean"}

TypeChars == {"t", "T", " "}

TypeExprs ==
    TypeWords
    \cup { Join(cs, "") : cs \in { x \in UNION { [1..k -> TypeChars] : k \in 1..MaxTypeLen } :
                                       x[1] # " " /\ x[Len(x)] # " " } }

FieldName == "zip"

InitTypes ==
    \E t1 \in TypeExprs, t2 \in TypeExprs, optional \in BOOLEAN :
        \/ AtShapeCheck((PrimitivesPath :> OrderVocabulary)
                            @@ (UserPath :> AddressDoc(<<Prop(FieldName, t1, FALSE)>>, 4))
                            @@ (BillingPath :> AddressDoc(<<Prop(FieldName, t2, optional)>>, 7)),
                        PrimitivesPath, <<UserPath, BillingPath>>)
        \/ /\ ~optional
           /\ AtShapeCheck((PrimitivesPath :> VocabularyWith(<<Prop(FieldName, t1, FALSE)>>))
                               @@ (UserPath :> AddressDoc(<<Prop(FieldName, t2, FALSE)>>, 4)),
                           PrimitivesPath, <<UserPath>>)

SpecTypes == InitTypes /\ [][NextShape]_vars

(***************************************************************************)
(* Properties of the comparison of two type expressions.                   *)
(***************************************************************************)
BaselineType == RecordsOf(RecordName)[1].type.properties[1].type
ComparedType == RecordsOf(RecordName)[2].type.properties[1].type

MismatchReported ==
    \E i \in 1..Len(ShapeIssues) :
        /\ ShapeIssues[i].severity = "error"
        /\ Includes(ShapeIssues[i].message,
                    "Type mismatch for '" \o RecordName \o "." \o FieldName \o "'")

EqualIgnoringCase(s, t) ==
    /\ Len(s) = Len(t)
    /\ \A i \in 1..Len(s) : LowerChar(CharAt(s, i)) = LowerChar(CharAt(t, i))

\* the letters of s without its white space
RECURSIVE Letters(_)
Letters(s) ==
    IF Len(s) = 0 THEN <<>>
    ELSE (IF IsSpace(CharAt(s, 1)) THEN <<>> ELSE <<LowerChar(CharAt(s, 1))>>)
         \o Letters(SubSeq(s, 2, Len(s)))

EqualIgnoringCaseAndSpace(s, t) == Letters(s) = Letters(t)

\* the table of acceptable aliases, either way round
Aliases == { {"string", "String"}, {"number", "Number"}, {"boolean", "Boolean"},
             {"Date", "string"} }

Listed(s, t) == {s, t} \in Aliases

\* C10 as stated: for a field of both records a 'type-shape' error is emitted
\* iff the type expressions differ and are neither equal ignoring case nor
\* listed in the alias table; the test is symmetric.
C10_AsStated ==
    ShapeChecked =>
        /\ MismatchReported <=>
              /\ BaselineType # ComparedType
              /\ ~EqualIgnoringCase(BaselineType, ComparedType)
              /\ ~Listed(BaselineType, ComparedType)
        /\ areTypesCompatible(BaselineType, ComparedType)
              = areTypesCompatible(ComparedType, BaselineType)

\* C10: for a field of both records a 'type-shape' error is emitted iff the
\* type expressions differ and are neither equal ignoring case and white
\* space nor listed, in that exact spelling, in the alias table; the test is
\* symmetric.
C10_MismatchIffNotEquivalent ==
    ShapeChecked =>
        /\ MismatchReported <=>
              /\ BaselineType # ComparedType
              /\ ~EqualIgnoringCaseAndSpace(BaselineType, ComparedType)
              /\ ~Listed(BaselineType, ComparedType)
        /\ areTypesCompatible(BaselineType, ComparedType)
              = areTypesCompatible(ComparedType, BaselineType)

\* the two type expressions differ in white space only and no error is emitted
C10_Witness ==
    /\ pc = "done"
    /\ BaselineType # ComparedType
    /\ ~EqualIgnoringCase(BaselineType, ComparedType)
    /\ ~Listed(BaselineType, ComparedType)
    /\ EqualIgnoringCaseAndSpace(BaselineType, ComparedType)
    /\ ~MismatchReported

(***************************************************************************)
(* Whole runs of verifyContracts over a project directory: the caller      *)
(* chooses the shared vocabulary and up to MaxContracts contract paths, in *)
(* any order and with repetition.                                          *)
(***************************************************************************)
SharedShapesPath == "shared/primitives-with-shapes.md"
AbsentPrimitivesPath == "shared/absent.md"
NotesPath == "contracts/NOTES.md"
AbsentPath == "contracts/ABSENT-CONTRACT.md"
InvoicePath == "contracts/INVOICE-CONTRACT.md"

SharedSource == "../shared/shared.types"

ProjectFiles ==
    (PrimitivesPath :> OrderVocabulary)
    @@ (SharedShapesPath :>
            Doc(<<>>, OrderVocabulary.types
                      \o <<Interface("UserRef", <<Prop("id", "string", FALSE),
                                                  Prop("email", "string", FALSE)>>, 8)>>))
    @@ (AbsentPrimitivesPath :> Unreadable)
    @@ (OrderPath :>
            Doc(<<Import("OrderId", SharedSource, 2), Import("OrderStatus", SharedSource, 2),
                  Import("CustomerRef", SharedSource, 3)>>,
                <<OrderRecord>>))
    @@ (CustomerPath :>
            Doc(<<Import("Order", SharedSource, 2)>>,
                <<Interface("Customer", <<Prop("id", "string", FALSE)>>, 5),
                  Interface("CustomerRef", <<Prop("id", "string", FALSE)>>, 9)>>))
    @@ (UserPath :>
            Doc(<<>>, <<Interface("UserRef", <<Prop("id", "string", FALSE),
                                               Prop("email", "string", TRUE)>>, 4)>>))
    @@ (BillingPath :>
            Doc(<<>>, <<Interface("UserRef", <<Prop("id", "string", FALSE)>>, 4),
                        Alias("Customers", 8)>>))
    @@ (InvoicePath :>
            Doc(<<Import("Order", SharedSource, 2), Import("Payment", SharedSource, 3)>>,
                <<Interface("CustomerRef", <<Prop("id", "string", FALSE)>>, 6),
                  Interface("Order", <<Prop("id", "number", FALSE)>>, 10)>>))
    @@ (NotesPath :> Doc(<<>>, <<>>))
    @@ (AbsentPath :> Unreadable)

PrimitivesPaths == {PrimitivesPath, SharedShapesPath, AbsentPrimitivesPath}

ContractPathPool ==
    {OrderPath, CustomerPath, UserPath, BillingPath, InvoicePath, NotesPath, AbsentPath}

Init ==
    \E primPath \in PrimitivesPaths, paths \in SeqsUpTo(ContractPathPool, MaxContracts) :
        RunStart(ProjectFiles, primPath, paths)

Spec == Init /\ [][Next]_vars

(***************************************************************************)
(* Properties of the report.                                               *)
(***************************************************************************)
HasSeverity(issues, severity) == \E i \in 1..Len(issues) : issues[i].severity = severity

\* C1: the report of a run lists the issues of the run, and passed is true
\* iff none of them has severity 'error'; warnings alone leave passed true.
C1_PassedIffNoError ==
    pc = "done" =>
        /\ report.issues = allIssues
        /\ report.passed \in BOOLEAN
        /\ report.passed <=> ~HasSeverity(report.issues, "error")
        /\ (~HasSeverity(report.issues, "error") /\ HasSeverity(report.issues, "warning"))
               => report.passed

\* a finished run whose report holds warnings, no error, and passed
C1_Witness ==
    /\ pc = "done"
    /\ HasSeverity(report.issues, "warning")
    /\ ~HasSeverity(report.issues, "error")
    /\ report.passed

(***************************************************************************)
(* Optionality drift.                                                      *)
(***************************************************************************)
\* the property of a declaration with the given name, when its names are distinct
PropOf(decl, field) ==
    decl.type.properties[CHOOSE i \in 1..Len(decl.type.properties) :
                             decl.type.properties[i].name = field]

\* the two declarations have the same field names, each once, with the same
\* type expressions
SameNamesAndTypes(d1, d2) ==
    /\ DistinctFields(d1)
    /\ DistinctFields(d2)
    /\ FieldNames(d1) = FieldNames(d2)
    /\ \A f \in FieldNames(d1) : PropOf(d1, f).type = PropOf(d2, f).type

DriftedFields(d1, d2) ==
    { f \in FieldNames(d1) : PropOf(d1, f).optional # PropOf(d2, f).optional }

ShapeWarningsNaming(name, field) ==
    SelectSeq(ShapeIssues,
              LAMBDA i : /\ i.severity = "warning"
                         /\ Includes(i.message, "'" \o name \o "." \o field \o "'"))

\* C11: when two documents declare a record with the same field names and
\* type expressions, the comparator emits exactly one warning for each field
\* whose optionality differs, none for the other fields, and no error; the
\* finished run passes.
C11_OptionalityWarnsOnce ==
    (/\ ShapeChecked
     /\ Len(RecordsOf(RecordName)) = 2
     /\ SameNamesAndTypes(RecordsOf(RecordName)[1], RecordsOf(RecordName)[2]))
    => /\ \A f \in FieldNames(RecordsOf(RecordName)[1]) :
              Len(ShapeWarningsNaming(RecordName, f))
                  = IF f \in DriftedFields(RecordsOf(RecordName)[1], RecordsOf(RecordName)[2])
                    THEN 1 ELSE 0
       /\ \A i \in 1..Len(ShapeIssues) : ShapeIssues[i].severity # "error"
       /\ pc = "done" => report.passed

\* two declarations {id, phone} that differ in the optionality of phone only:
\* one warning, no error, and the report passes
C11_Witness ==
    /\ pc = "done"
    /\ Len(RecordsOf(RecordName)) = 2
    /\ SameNamesAndTypes(RecordsOf(RecordName)[1], RecordsOf(RecordName)[2])
    /\ FieldNames(RecordsOf(RecordName)[1]) = {"id", "phone"}
    /\ DriftedFields(RecordsOf(RecordName)[1], RecordsOf(RecordName)[2]) = {"phone"}
    /\ Len(ShapeIssues) = 1
    /\ ShapeIssues[1].severity = "warning"
    /\ report.passed

(***************************************************************************)
(* Redeclaration of an imported name: the shared vocabulary and one        *)
(* contract declare ProductId, each as a record with any fields, an alias  *)
(* or an enumeration; the contract imports the name or not.                *)
(***************************************************************************)
ProductName == "ProductId"

\* the declarations of the name, of each kind
ProductDecls(line) ==
    { Interface(ProductName, props, line) : props \in PropLists }
    \cup { Alias(ProductName, line), Enum(ProductName, <<"SKU", "EAN">>, line) }

ProductImports ==
    { <<>>,
      <<Import(ProductName, SharedSource, 2)>>,
      <<Import(ProductName, "zod", 2)>>,
      <<Import("OrderId", SharedSource, 2), Import(ProductName, "./product.types", 3)>> }

InitKinds ==
    \E shared \in ProductDecls(6), local \in ProductDecls(5), imports \in ProductImports :
        AtShapeCheck((PrimitivesPath :> Doc(<<>>, OrderVocabulary.types \o <<shared>>))
                         @@ (UserPath :> Doc(imports, <<local>>)),
                     PrimitivesPath, <<UserPath>>)

SpecKinds == InitKinds /\ [][NextShape]_vars

\* the contract imports the name, declares it, and the shared vocabulary
\* declares it with another kind
Redeclares(contract, name) ==
    /\ \E i \in 1..Len(contract.imports) : contract.imports[i].name = name
    /\ \E t \in 1..Len(contract.types) :
          /\ contract.types[t].name = name
          /\ \E p \in 1..Len(primitives.types) :
                /\ primitives.types[p].k = name
                /\ primitives.types[p].v.kind # contract.types[t].kind

KindErrorFor(contract, name) ==
    \E i \in 1..Len(allIssues) :
        /\ allIssues[i].severity = "error"
        /\ allIssues[i].category = "type-shape"
        /\ allIssues[i].file = contract.filePath
        /\ Includes(allIssues[i].message, "Import '" \o name \o "' is redefined as")

\* C12: when a contract imports a name, declares it locally, and the shared
\* vocabulary declares it with a different kind, the run emits a 'type-shape'
\* error attributed to that contract and the report fails, whatever the
\* fields of the two declarations.
C12_KindMismatchFails ==
    \A c \in 1..Len(contracts) :
        (ShapeChecked /\ Redeclares(contracts[c], ProductName))
        => /\ KindErrorFor(contracts[c], ProductName)
           /\ pc = "done" => ~report.passed

\* an alias in the shared vocabulary, imported and redeclared as a record
\* without fields: the error is the only issue of the run and the report fails
C12_Witness ==
    /\ pc = "done"
    /\ Redeclares(contracts[1], ProductName)
    /\ MapGet(primitives.types, ProductName).kind = "type"
    /\ contracts[1].types[1].kind = "interface"
    /\ contracts[1].types[1].properties = <<>>
    /\ KindErrorFor(contracts[1], ProductName)
    /\ Len(report.issues) = 1
    /\ ~report.passed

(***************************************************************************)
(* The naming audit, entered as verifyContracts enters it: the files are   *)
(* parsed and the first two checks have contributed their issues.          *)
(***************************************************************************)
AtNamingCheck(fsys, primPath, paths) ==
    LET prims == SharedPrimitives(primPath, fsys[primPath])
        cs == [i \in 1..Len(paths) |-> ParsedContract(paths[i], fsys[paths[i]])]
        circular == checkCircularDependencies(cs)
    IN /\ pc = "naming"
       /\ files = fsys
       /\ primitivesPath = primPath
       /\ contractPaths = paths
       /\ primitives = prims
       /\ contracts = cs
       /\ allIssues = checkImportResolution(cs, prims) \o circular.issues
       /\ graph = circular.graph
       /\ report = NoValue
       /\ DfsIdle
       /\ CliIdle
       /\ ScanIdle

NextNaming ==
    \/ CheckNaming
    \/ CheckShape
    \/ GenerateReport

\* aliases with the given names, one per line from line 3 on
Aliases3(names) == [i \in 1..Len(names) |-> Alias(names[i], i + 2)]

SimilarNamePool ==
    {"Customer", "Customers", "customer", "RiskScore", "RiskScores", "Invoice"}

\* what the second contract declares
BillingNames ==
    { <<>>, <<"Customer">>, <<"Customers", "Customer">>, <<"RiskScores", "Invoice">> }

\* what the shared vocabulary declares
VocabularyNames == { <<>>, <<"Customers">>, <<"customer", "RiskScore">> }

InitNaming ==
    \E names \in SeqsUpTo(SimilarNamePool, MaxNames), billing \in BillingNames,
       shared \in VocabularyNames,
       paths \in {<<UserPath, BillingPath>>, <<BillingPath, UserPath>>} :
        AtNamingCheck((PrimitivesPath :> Doc(<<>>, Aliases3(shared)))
                          @@ (UserPath :> Doc(<<>>, Aliases3(names)))
                          @@ (BillingPath :> Doc(<<>>, Aliases3(billing))),
                      PrimitivesPath, paths)

SpecNaming == InitNaming /\ [][NextNaming]_vars

(***************************************************************************)
(* Properties of the naming audit.                                         *)
(***************************************************************************)
NamingChecked == pc \in {"shape", "report", "done"}

\* every name declared by the shared vocabulary or a contract
AllDeclaredNames ==
    { primitives.types[i].k : i \in 1..Len(primitives.types) }
    \cup UNION { { contracts[c].types[t].name : t \in 1..Len(contracts[c].types) } :
                 c \in 1..Len(contracts) }

NamingIssues == SelectSeq(allIssues, LAMBDA i : i.category = "naming")

\* the similarity warnings for the unordered pair {a, b}
SimilarWarnings(a, b) ==
    SelectSeq(NamingIssues,
              LAMBDA i : \/ Includes(i.message, "Similar names detected: '" \o a \o "' and '" \o b \o "' (")
                         \/ Includes(i.message, "Similar names detected: '" \o b \o "' and '" \o a \o "' ("))

\* 0.85 <= 1 - distance / maxLen < 1 on the lower-cased names
CloseNames(a, b) ==
    LET distance == levenshteinDistance(ToLowerCase(a), ToLowerCase(b))
        maxLen == IF Len(a) >= Len(b) THEN Len(a) ELSE Len(b)
    IN /\ distance > 0
       /\ 100 * (maxLen - distance) >= 85 * maxLen

\* C13: any two distinct declared names that are similar (ratio at least 0.85
\* and below 1 on the lower-cased names) and not exempted get exactly one
\* similarity warning for the unordered pair, however many documents declare
\* them and in whatever order.
C13_SimilarPairOnce ==
    NamingChecked =>
        \A a \in AllDeclaredNames, b \in AllDeclaredNames :
            (a # b /\ CloseNames(a, b) /\ ~isExpectedPair(a, b))
            => /\ Len(SimilarWarnings(a, b)) = 1
               /\ SimilarWarnings(a, b)[1].severity = "warning"

\* Customer and Customers, each declared by two documents: one warning
C13_Witness ==
    /\ pc = "done"
    /\ Cardinality({ c \in 1..Len(contracts) :
                       \E t \in 1..Len(contracts[c].types) :
                           contracts[c].types[t].name = "Customer" }) = 2
    /\ MapHas(primitives.types, "Customers")
    /\ \E c \in 1..Len(contracts) :
           \E t \in 1..Len(contracts[c].types) : contracts[c].types[t].name = "Customers"
    /\ CloseNames("Customer", "Customers")
    /\ ~isExpectedPair("Customer", "Customers")
    /\ Len(SimilarWarnings("Customer", "Customers")) = 1

(***************************************************************************)
(* Severity by category.                                                   *)
(***************************************************************************)
OnlyCategory(issues, category) ==
    \A i \in 1..Len(issues) : issues[i].category = category

\* C14: every 'naming' issue is a warning, every 'import' and 'circular-dep'
\* issue is an error, and a finished run whose issues are all 'naming'
\* issues passes.
C14_SeverityByCategory ==
    /\ \A i \in 1..Len(allIssues) :
          /\ allIssues[i].category = "naming" => allIssues[i].severity = "warning"
          /\ allIssues[i].category \in {"import", "circular-dep"}
                 => allIssues[i].severity = "error"
    /\ pc = "done" =>
          /\ report.issues = allIssues
          /\ OnlyCategory(report.issues, "naming") => report.passed

\* a finished run whose only finding is the naming warning about an orphaned
\* reference type
C14_Witness ==
    /\ pc = "done"
    /\ Len(report.issues) >= 1
    /\ OnlyCategory(report.issues, "naming")
    /\ \E i \in 1..Len(report.issues) : Includes(report.issues[i].message, "Reference type")
    /\ report.passed

(***************************************************************************)
(* The naming audit on names that carry suffixes.                          *)
(***************************************************************************)
MaxSuffixed == 2

SuffixedNamePool ==
    {"CustomerAccountInput", "CustomerAccountOutput", "OrderType", "OrderTypes",
     "UserId", "UserIds", "RiskScore", "RiskScores"}

\* what the second contract declares
BillingSuffixed == { <<>>, <<"OrderTypes">>, <<"CustomerAccountOutput", "OrderTypes">> }

InitSuffixes ==
    \E names \in SeqsUpTo(SuffixedNamePool, MaxSuffixed), billing \in BillingSuffixed :
        AtNamingCheck((PrimitivesPath :> Doc(<<>>, <<>>))
                          @@ (UserPath :> Doc(<<>>, Aliases3(names)))
                          @@ (BillingPath :> Doc(<<>>, Aliases3(billing))),
                      PrimitivesPath, <<UserPath, BillingPath>>)

SpecSuffixes == InitSuffixes /\ [][NextNaming]_vars

ListedSuffixes ==
    {"Id", "Ref", "Input", "Output", "Request", "Response", "Type", "Status",
     "Score", "Scores"}

\* the eight suffixes and a pluralized form of each
SuffixesWithPlurals ==
    {"Id", "Ref", "Input", "Output", "Request", "Response", "Type", "Status",
     "Ids", "Refs", "Inputs", "Outputs", "Requests", "Responses", "Types", "Statuses"}

\* the name without the suffix of the set it ends with (the longest one)
BaseOver(suffixes, n) ==
    LET ending == { s \in suffixes : EndsWith(n, s) }
    IN IF ending = {} THEN n
       ELSE LET s == CHOOSE x \in ending : \A y \in ending : Len(y) <= Len(x)
            IN SubSeq(n, 1, Len(n) - Len(s))

EndsWithOneOf(suffixes, n) == \E s \in suffixes : EndsWith(n, s)

\* C15 as stated: no similarity warning for two names that each end in one of
\* the eight suffixes or a pluralized form of one, and have the same base
\* once that suffix is stripped.
C15_AsStated ==
    NamingChecked =>
        \A a \in AllDeclaredNames, b \in AllDeclaredNames :
            ( /\ a # b
              /\ EndsWithOneOf(SuffixesWithPlurals, a)
              /\ EndsWithOneOf(SuffixesWithPlurals, b)
              /\ BaseOver(SuffixesWithPlurals, a) = BaseOver(SuffixesWithPlurals, b) )
            => Len(SimilarWarnings(a, b)) = 0

\* C15: no similarity warning for two names that are equal once the suffix
\* Id, Ref, Input, Output, Request, Response, Type, Status, Score or Scores
\* is removed from the end of each name that ends in one.
C15_ListedSuffixExempt ==
    NamingChecked =>
        \A a \in AllDeclaredNames, b \in AllDeclaredNames :
            ( a # b /\ BaseOver(ListedSuffixes, a) = BaseOver(ListedSuffixes, b) )
            => Len(SimilarWarnings(a, b)) = 0

\* CustomerAccountInput and CustomerAccountOutput are similar (18/21), match
\* none of the pattern pairs, share their base and draw no warning, while
\* OrderType and OrderTypes in the same run draw one
C15_Witness ==
    /\ pc = "done"
    /\ {"CustomerAccountInput", "CustomerAccountOutput", "OrderType", "OrderTypes"}
           \subseteq AllDeclaredNames
    /\ CloseNames("CustomerAccountInput", "CustomerAccountOutput")
    /\ BaseOver(ListedSuffixes, "CustomerAccountInput") = "CustomerAccount"
    /\ BaseOver(ListedSuffixes, "CustomerAccountOutput") = "CustomerAccount"
    /\ Len(SimilarWarnings("CustomerAccountInput", "CustomerAccountOutput")) = 0
    /\ Len(SimilarWarnings("OrderType", "OrderTypes")) = 1

(***************************************************************************)
(* The naming audit on reference types.                                    *)
(***************************************************************************)
MaxRefs == 2

\* the declarations a contract may hold (the line is set by the position)
RefDeclPool ==
    { Interface("UserRef", <<Prop("id", "string", FALSE)>>, 0),
      Alias("UserRef", 0),
      Enum("OrderRef", <<"A", "B">>, 0),
      Interface("OrderRef", <<>>, 0),
      Interface("User", <<Prop("id", "string", FALSE)>>, 0) }

Numbered(decls) == [i \in 1..Len(decls) |-> [decls[i] EXCEPT !.line = i + 2]]

\* what the second contract declares
BillingRefs ==
    { <<>>,
      <<Interface("UserRef", <<Prop("id", "string", FALSE)>>, 0)>>,
      <<Alias("User", 0), Alias("OrderRef", 0)>> }

\* what the shared vocabulary declares
VocabularyRefs ==
    { <<>>,
      <<Interface("UserRef", <<Prop("id", "string", FALSE)>>, 0)>>,
      <<Alias("Order", 0)>> }

InitRefs ==
    \E decls \in SeqsUpTo(RefDeclPool, MaxRefs), billing \in BillingRefs,
       shared \in VocabularyRefs :
        AtNamingCheck((PrimitivesPath :> Doc(<<>>, Numbered(shared)))
                          @@ (UserPath :> Doc(<<>>, Numbered(decls)))
                          @@ (BillingPath :> Doc(<<>>, Numbered(billing))),
                      PrimitivesPath, <<UserPath, BillingPath>>)

SpecRefs == InitRefs /\ [][NextNaming]_vars

\* the orphaned-reference warnings about the name n
RefWarnings(n) ==
    SelectSeq(NamingIssues,
              LAMBDA i : Includes(i.message, "Reference type '" \o n \o "' has no "))

RefNames == { n \in AllDeclaredNames : EndsWith(n, "Ref") }

Entity(n) == SubSeq(n, 1, Len(n) - 3)

InterfaceInContract(n) ==
    \E c \in 1..Len(contracts) :
        \E t \in 1..Len(contracts[c].types) :
            /\ contracts[c].types[t].name = n
            /\ contracts[c].types[t].kind = "interface"

\* C16 as stated: every declared name ending in Ref, of any kind and in any
\* document, draws exactly one warning when the stripped name is declared
\* nowhere, and none when it is declared.
C16_AsStated ==
    NamingChecked =>
        \A n \in RefNames :
            Len(RefWarnings(n)) = IF Entity(n) \in AllDeclaredNames THEN 0 ELSE 1

\* C16: a name ending in Ref draws exactly one warning when some contract
\* declares it as an interface and the stripped name is declared nowhere
\* (contracts and shared vocabulary), and none otherwise: none when the
\* stripped name is declared, none when the name is declared only by the
\* shared vocabulary or only as an alias or enum, never two.
C16_OrphanInterfaceRefOnce ==
    NamingChecked =>
        \A n \in RefNames :
            /\ Len(RefWarnings(n)) =
                  IF InterfaceInContract(n) /\ Entity(n) \notin AllDeclaredNames
                  THEN 1 ELSE 0
            /\ \A i \in 1..Len(RefWarnings(n)) : RefWarnings(n)[i].severity = "warning"

\* both contracts declare the interface UserRef, nothing declares User: one
\* warning; OrderRef, declared as an enum and an alias only, draws none
C16_Witness ==
    /\ pc = "done"
    /\ \A c \in 1..Len(contracts) :
           \E t \in 1..Len(contracts[c].types) :
               /\ contracts[c].types[t].name = "UserRef"
               /\ contracts[c].types[t].kind = "interface"
    /\ Len(contracts) = 2
    /\ "User" \notin AllDeclaredNames
    /\ Len(RefWarnings("UserRef")) = 1
    /\ "OrderRef" \in AllDeclaredNames
    /\ "Order" \notin AllDeclaredNames
    /\ Len(RefWarnings("OrderRef")) = 0

(***************************************************************************)
(* The run as a whole.                                                     *)
(***************************************************************************)
\* the documents of the run, as parsed from the files
InputPrimitives == SharedPrimitives(primitivesPath, files[primitivesPath])

InputContracts ==
    [i \in 1..Len(contractPaths) |-> ParsedContract(contractPaths[i], files[contractPaths[i]])]

Categories(issues) == [i \in 1..Len(issues) |-> issues[i].category]

\* C17: the issue list of a report is the import-resolution issues, then the
\* circular-dependency issues, then the naming issues, then the shape issues,
\* each check evaluated on all the documents of the run whatever the earlier
\* checks found.
C17_AllChecksInOrder ==
    pc = "done" =>
        report.issues = checkImportResolution(InputContracts, InputPrimitives)
                        \o checkCircularDependencies(InputContracts).issues
                        \o checkNamingConsistency(InputContracts, InputPrimitives)
                        \o checkTypeShapeCompatibility(InputContracts, InputPrimitives)

\* a report with an import error, then a cycle error, then a naming warning,
\* then shape errors
C17_Witness ==
    /\ pc = "done"
    /\ Len(report.issues) >= 4
    /\ \E i, j, k, l \in 1..Len(report.issues) :
           /\ i < j /\ j < k /\ k < l
           /\ report.issues[i].category = "import" /\ report.issues[i].severity = "error"
           /\ report.issues[j].category = "circular-dep"
           /\ report.issues[k].category = "naming"
           /\ report.issues[l].category = "type-shape"
    /\ checkNamingConsistency(InputContracts, InputPrimitives) # <<>>
    /\ checkTypeShapeCompatibility(InputContracts, InputPrimitives) # <<>>

Documents == {primitivesPath} \cup Range(contractPaths)

ReadFailure == \E path \in Documents : ~files[path].readable

\* C18: when the shared vocabulary or a contract cannot be read, the run ends
\* by the exception: it never reaches a check, and no issue, graph or report
\* is produced; a run that returns a report has read every document.
C18_ReadFailureAborts ==
    /\ ReadFailure =>
          /\ pc \in {"start", "contracts", "thrown"}
          /\ allIssues = <<>>
          /\ graph = NoValue
          /\ report = NoValue
    /\ pc = "thrown" => ReadFailure
    /\ pc = "done" => ~ReadFailure /\ report.passed \in BOOLEAN

\* the second contract cannot be read: the run has thrown after parsing the
\* shared vocabulary and the first contract
C18_Witness ==
    /\ pc = "thrown"
    /\ Len(contractPaths) = 2
    /\ Len(contracts) = 1
    /\ files[primitivesPath].readable
    /\ files[contractPaths[1]].readable
    /\ ~files[contractPaths[2]].readable
    /\ allIssues = <<>>
    /\ report = NoValue

\* what verifyContracts returns for the given files and paths, timestamp aside
RunResult(fsys, primPath, paths) ==
    LET prims == SharedPrimitives(primPath, fsys[primPath])
        cs == [i \in 1..Len(paths) |-> ParsedContract(paths[i], fsys[paths[i]])]
        circular == checkCircularDependencies(cs)
        issues == checkImportResolution(cs, prims) \o circular.issues
                  \o checkNamingConsistency(cs, prims)
                  \o checkTypeShapeCompatibility(cs, prims)
    IN [issues |-> issues,
        dependencyGraph |-> circular.graph,
        passed |-> \A i \in 1..Len(issues) : issues[i].severity # "error"]

MaxEdges == 1

OrdersDirPath == "orders/CONTRACT.md"
BillingDirPath == "billing/CONTRACT.md"

EdgeImportNames == {"Order", "Invoice", "User", "OrderId"}

ImportsOf(names) == [i \in 1..Len(names) |-> Import(names[i], SharedSource, i + 1)]

\* what the third contract imports
UserImportNames == { <<>>, <<"Invoice">>, <<"OrderId">>, <<"Order">> }

InitGraph ==
    \E orders \in SeqsUpTo(EdgeImportNames, MaxEdges),
       billing \in SeqsUpTo(EdgeImportNames, MaxEdges),
       user \in UserImportNames :
        AtNamingCheck((PrimitivesPath :> OrderVocabulary)
                          @@ (OrdersDirPath :> Doc(ImportsOf(orders), <<OrderRecord>>))
                          @@ (BillingDirPath :>
                                  Doc(ImportsOf(billing),
                                      <<Interface("Invoice", <<Prop("id", "string", FALSE)>>, 9)>>))
                          @@ (UserPath :>
                                  Doc(ImportsOf(user),
                                      <<Interface("User", <<Prop("id", "string", FALSE)>>, 9)>>)),
                      PrimitivesPath, <<OrdersDirPath, BillingDirPath, UserPath>>)

SpecGraph == InitGraph /\ [][NextNaming]_vars

GraphBuilt == pc \in {"naming", "shape", "report", "done"}

\* A has an import whose name B declares
ImportsFrom(A, B) ==
    \E i \in 1..Len(A.imports) :
        \E t \in 1..Len(B.types) : B.types[t].name = A.imports[i].name

\* C20: the dependency graph has one node per contract, named by the contract
\* and never by the shared vocabulary; for distinct contracts A and B the node
\* of A lists B iff A imports a name that B declares; the report carries the
\* graph whether or not a cycle was found.
C20_EdgeIffImport ==
    GraphBuilt =>
        /\ Len(graph) = Len(contracts)
        /\ \A a \in 1..Len(contracts) :
              /\ graph[a].name = Basename(contracts[a].filePath)
              /\ graph[a].name # Basename(primitivesPath)
              /\ \A b \in 1..Len(contracts) :
                    contracts[a].filePath # contracts[b].filePath
                    => ( Contains(graph[a].dependencies, Basename(contracts[b].filePath))
                         <=> ImportsFrom(contracts[a], contracts[b]) )
        /\ pc = "done" => report.dependencyGraph = graph

(***************************************************************************)
(* The verify command of the CLI (src/src/cli.ts).  A file that is not on  *)
(* disk is Missing; a file that is on disk but cannot be read (a directory,*)
(* no permission) is Unreadable.  A glob pattern is held as the sequence of*)
(* relative paths it can match; glob returns, as absolute paths, those on  *)
(* disk.                                                                   *)
(***************************************************************************)
MaxMatched == 2

Cwd == "/repo"

Missing == [readable |-> FALSE, imports |-> <<>>, types |-> <<>>, missing |-> TRUE]

\* fs.existsSync
ExistsSync(fsys, path) == path \in DOMAIN fsys /\ fsys[path] # Missing

\* path.resolve of a relative or absolute path without '.' or '..' segments
Resolve(path) == IF StartsWith(path, "/") THEN path ELSE Cwd \o "/" \o path

\* glob(pattern, { absolute: true })
Glob(fsys, pattern) ==
    LET found == SelectSeq(pattern, LAMBDA p : ExistsSync(fsys, Resolve(p)))
    IN [i \in 1..Len(found) |-> Resolve(found[i])]

\* the primitives file is looked up before anything else
CliCheckPrimitives ==
    /\ pc = "cli"
    /\ exited = <<>>
    /\ LET path == Resolve(options.primitives)
       IN IF ~ExistsSync(files, path)
          THEN /\ exited' = <<1>>
               /\ UNCHANGED <<pc, primitivesPath>>
          ELSE /\ primitivesPath' = path
               /\ pc' = "glob"
               /\ UNCHANGED exited
    /\ UNCHANGED <<files, contractPaths, primitives, contracts, allIssues, graph, report,
                   options>>
    /\ UNCHANGED <<dfsVars, scan>>

\* the pattern is expanded; verifyContracts is called when it matched a file
CliGlob ==
    /\ pc = "glob"
    /\ exited = <<>>
    /\ LET paths == Glob(files, options.contracts)
       IN IF Len(paths) = 0
          THEN /\ exited' = <<1>>
               /\ UNCHANGED <<pc, contractPaths>>
          ELSE /\ contractPaths' = paths
               /\ pc' = "start"
               /\ UNCHANGED exited
    /\ UNCHANGED <<files, primitivesPath, primitives, contracts, allIssues, graph, report,
                   options>>
    /\ UNCHANGED <<dfsVars, scan>>

\* CliExit with status zero for every report
CliExitZero ==
    /\ pc = "done"
    /\ exited = <<>>
    /\ exited' = <<0>>
    /\ UNCHANGED <<runVars, dfsVars, options, scan>>

\* process.exit(report.passed ? 0 : 1)
CliExit ==
    /\ pc = "done"
    /\ exited = <<>>
    /\ exited' = <<IF report.passed THEN 0 ELSE 1>>
    /\ UNCHANGED <<runVars, dfsVars, options, scan>>

\* the catch clause: verifyContracts has thrown
CliCatch ==
    /\ pc = "thrown"
    /\ exited = <<>>
    /\ exited' = <<1>>
    /\ UNCHANGED <<runVars, dfsVars, options, scan>>

NextCli ==
    \/ CliCheckPrimitives
    \/ CliGlob
    \/ Next
    \/ CliExit
    \/ CliCatch

\* the project files under the working directory; the two absent files are
\* either not on disk or on disk and unreadable
CliFiles(absentOnDisk) ==
    [path \in { Resolve(p) : p \in DOMAIN ProjectFiles } |->
        LET p == CHOOSE q \in DOMAIN ProjectFiles : Resolve(q) = path
        IN IF ProjectFiles[p] = Unreadable /\ ~absentOnDisk THEN Missing
           ELSE ProjectFiles[p]]

InitCli ==
    \E absentOnDisk \in BOOLEAN,
       primPath \in PrimitivesPaths \cup {Resolve(PrimitivesPath)},
       pattern \in SeqsUpTo({UserPath, BillingPath, CustomerPath, NotesPath, AbsentPath},
                            MaxMatched) :
        /\ pc = "cli"
        /\ files = CliFiles(absentOnDisk)
        /\ options = [primitives |-> primPath, contracts |-> pattern]
        /\ exited = <<>>
        /\ primitivesPath = NoValue
        /\ contractPaths = <<>>
        /\ primitives = NoValue
        /\ contracts = <<>>
        /\ allIssues = <<>>
        /\ graph = NoValue
        /\ report = NoValue
        /\ DfsIdle
        /\ ScanIdle

SpecCli == InitCli /\ [][NextCli]_vars

\* C21: the verify command exits with status 0 iff verifyContracts returned a
\* report that passed; it exits with 1 when the report holds an error, when
\* the primitives file is not on disk, when the pattern matched no file and
\* when reading a file failed.
C21_ExitZeroIffPassed ==
    /\ exited \in {<<>>, <<0>>, <<1>>}
    /\ exited # <<>> =>
          /\ exited = <<0>> <=> (pc = "done" /\ report.passed)
          /\ pc \in {"cli", "glob", "thrown", "done"}
          /\ pc = "cli" => ~ExistsSync(files, Resolve(options.primitives))
          /\ pc = "glob" => \A i \in 1..Len(options.contracts) :
                               ~ExistsSync(files, Resolve(options.contracts[i]))
          /\ pc = "thrown" => \E path \in {primitivesPath} \cup Range(contractPaths) :
                                 ~files[path].readable
          /\ (pc = "done" /\ \E i \in 1..Len(report.issues) : report.issues[i].severity = "error")
                 => exited = <<1>>

\* the command has exited with 0 after a run that returned warnings only
C21_Witness ==
    /\ exited = <<0>>
    /\ pc = "done"
    /\ Len(contractPaths) = 2
    /\ Len(report.issues) >= 1
    /\ report.passed

(***************************************************************************)
(* The extractor (parseContract, extractImports, extractTypes,             *)
(* extractProperties) on the text of a document.  A regular expression is  *)
(* translated as the match it finds at a position: [ok, ..., next], next   *)
(* being the position after the match.  The optional generic and extends   *)
(* clauses are translated; comments inside an import list are not.         *)
(***************************************************************************)
Digits == "0123456789"

\* \w
IsWordChar(c) ==
    \/ \E i \in 1..Len(LowerChars) : CharAt(LowerChars, i) = c
    \/ \E i \in 1..Len(UpperChars) : CharAt(UpperChars, i) = c
    \/ \E i \in 1..Len(Digits) : CharAt(Digits, i) = c
    \/ c = "_"

\* [a-zA-Z_$]
IsNameStart(c) ==
    \/ \E i \in 1..Len(LowerChars) : CharAt(LowerChars, i) = c
    \/ \E i \in 1..Len(UpperChars) : CharAt(UpperChars, i) = c
    \/ c \in {"_", "$"}

\* the character classes \s and \w as sets
SpaceChars == {" ", "\t", "\n", "\r"}

WordChars ==
    { CharAt(LowerChars, i) : i \in 1..Len(LowerChars) }
        \cup { CharAt(UpperChars, i) : i \in 1..Len(UpperChars) }
        \cup { CharAt(Digits, i) : i \in 1..Len(Digits) }
        \cup {"_"}

\* the position after the longest run of characters of the class from i on
SpanEnd(s, i, class) ==
    CHOOSE j \in i..(Len(s) + 1) :
        /\ \A k \in i..(j - 1) : CharAt(s, k) \in class
        /\ j = Len(s) + 1 \/ CharAt(s, j) \notin class

\* the literal lit stands at position i
Lit(s, i, lit) == i >= 1 /\ i + Len(lit) - 1 <= Len(s) /\ SubSeq(s, i, i + Len(lit) - 1) = lit

\* the first position from i on that holds one of the characters, 0 if none
FirstOf(s, i, chars) ==
    LET hits == { j \in i..Len(s) : CharAt(s, j) \in chars }
    IN IF hits = {} THEN 0 ELSE CHOOSE j \in hits : \A k \in hits : j <= k

\* String.prototype.trim
Trim(s) ==
    LET keep == { j \in 1..Len(s) : ~IsSpace(CharAt(s, j)) }
    IN IF keep = {} THEN ""
       ELSE SubSeq(s, CHOOSE j \in keep : \A k \in keep : j <= k,
                      CHOOSE j \in keep : \A k \in keep : k <= j)

\* String.prototype.split on a one-character separator
Split(s, sep) ==
    LET cuts == { j \in 1..Len(s) : CharAt(s, j) = sep }
        Cut(n) == IF n = 0 THEN 0
                  ELSE IF n > Cardinality(cuts) THEN Len(s) + 1
                  ELSE CHOOSE j \in cuts : Cardinality({ k \in cuts : k < j }) = n - 1
    IN [n \in 1..(Cardinality(cuts) + 1) |-> SubSeq(s, Cut(n - 1) + 1, Cut(n) - 1)]

\* (beforeMatch.match(/\n/g) || []).length for the match at index
LineOffset(code, index) == Cardinality({ k \in 1..(index - 1) : CharAt(code, k) = "\n" })

NoMatch == [ok |-> FALSE]

\* A match in progress at position i: match.index, the position reached
\* (regex.lastIndex once the match is complete) and the groups captured so
\* far (match[1], match[2], ...).  Each piece of an expression takes the match
\* so far and extends it, or fails.
MatchFrom(i) == [ok |-> TRUE, index |-> i, lastIndex |-> i, groups |-> <<>>]

\* a literal
ThenLit(code, m, lit) ==
    IF m.ok /\ Lit(code, m.lastIndex, lit)
    THEN [m EXCEPT !.lastIndex = @ + Len(lit)]
    ELSE NoMatch

\* \s* (min = 0), \s+ (min = 1): what follows never begins with a character
\* of the class, so the longest run is the one that is kept
ThenRun(code, m, class, min) ==
    IF m.ok /\ SpanEnd(code, m.lastIndex, class) >= m.lastIndex + min
    THEN [m EXCEPT !.lastIndex = SpanEnd(code, m.lastIndex, class)]
    ELSE NoMatch

\* (\w+)
ThenWord(code, m) ==
    IF m.ok /\ SpanEnd(code, m.lastIndex, WordChars) > m.lastIndex
    THEN [m EXCEPT !.lastIndex = SpanEnd(code, m.lastIndex, WordChars),
                   !.groups = Append(@, SubSeq(code, m.lastIndex,
                                               SpanEnd(code, m.lastIndex, WordChars) - 1))]
    ELSE NoMatch

\* ([^x]*)x (min = 0), ([^x]+)x (min = 1): the group runs to the first x
ThenUpTo(code, m, stops, min) ==
    IF m.ok /\ FirstOf(code, m.lastIndex, stops) >= m.lastIndex + min
    THEN [m EXCEPT !.lastIndex = FirstOf(code, m.lastIndex, stops) + 1,
                   !.groups = Append(@, SubSeq(code, m.lastIndex,
                                               FirstOf(code, m.lastIndex, stops) - 1))]
    ELSE NoMatch

\* ['"]
ThenOneOf(code, m, chars) ==
    IF m.ok /\ m.lastIndex <= Len(code) /\ CharAt(code, m.lastIndex) \in chars
    THEN [m EXCEPT !.lastIndex = @ + 1]
    ELSE NoMatch

\* (\?)? : the group is "?" or, when absent, undefined (here "")
ThenOptionalMark(code, m) ==
    IF ~m.ok THEN NoMatch
    ELSE IF Lit(code, m.lastIndex, "?")
         THEN [m EXCEPT !.lastIndex = @ + 1, !.groups = Append(@, "?")]
         ELSE [m EXCEPT !.groups = Append(@, "")]

\* export\s+<keyword>\s+(\w+)
DeclarationAt(code, i, keyword) ==
    ThenWord(code,
      ThenRun(code,
        ThenLit(code,
          ThenRun(code, ThenLit(code, MatchFrom(i), "export"), SpaceChars, 1),
          keyword),
        SpaceChars, 1))

\* (?:<[^>]+>)? : past the optional generic clause
AfterGeneric(code, m) ==
    IF ThenUpTo(code, ThenLit(code, m, "<"), {">"}, 1).ok
    THEN [m EXCEPT !.lastIndex = ThenUpTo(code, ThenLit(code, m, "<"), {">"}, 1).lastIndex]
    ELSE m

\* extends, with white space before it
ExtendsAt(code, m) == ThenLit(code, ThenRun(code, m, SpaceChars, 1), "extends")

\* (?:\s+extends\s+[^{]+)? : past the optional extends clause, which needs a
\* white space and one more character before the opening brace
AfterExtends(code, m) ==
    IF /\ ExtendsAt(code, m).ok
       /\ ThenOneOf(code, ExtendsAt(code, m), SpaceChars).ok
       /\ FirstOf(code, ExtendsAt(code, m).lastIndex, {"{"}) >= ExtendsAt(code, m).lastIndex + 2
    THEN [m EXCEPT !.lastIndex = FirstOf(code, ExtendsAt(code, m).lastIndex, {"{"})]
    ELSE m

\* /export\s+interface\s+(\w+)(?:<[^>]+>)?(?:\s+extends\s+[^{]+)?\s*\{([^}]*(?:\{[^}]*\}[^}]*)*)\}/
\* The greedy [^}]* runs to the first '}', the group then matches zero times
\* and \} matches that '}': nothing follows in the expression that could make
\* the match fail and backtrack into the group, so the body always ends at the
\* first '}' after the opening brace.
InterfaceAt(code, i) ==
    ThenUpTo(code,
      ThenLit(code,
        ThenRun(code,
          AfterExtends(code, AfterGeneric(code, DeclarationAt(code, i, "interface"))),
          SpaceChars, 0),
        "{"),
      {"}"}, 0)

\* /export\s+type\s+(\w+)(?:<[^>]+>)?\s*=\s*([^;]+);/
AliasAt(code, i) ==
    ThenUpTo(code,
      ThenLit(code,
        ThenRun(code, AfterGeneric(code, DeclarationAt(code, i, "type")), SpaceChars, 0),
        "="),
      {";"}, 1)

\* /export\s+enum\s+(\w+)\s*\{([^}]+)\}/
EnumAt(code, i) ==
    ThenUpTo(code,
      ThenLit(code, ThenRun(code, DeclarationAt(code, i, "enum"), SpaceChars, 0), "{"),
      {"}"}, 1)

\* /export\s+const\s+(\w+)\s*=\s*\{/
ConstAt(code, i) ==
    ThenLit(code,
      ThenRun(code,
        ThenLit(code, ThenRun(code, DeclarationAt(code, i, "const"), SpaceChars, 0), "="),
        SpaceChars, 0),
      "{")

\* import\s*\{([^}]+)\}
ImportListAt(code, i) ==
    ThenUpTo(code,
      ThenLit(code, ThenRun(code, ThenLit(code, MatchFrom(i), "import"), SpaceChars, 0), "{"),
      {"}"}, 1)

\* /import\s*\{([^}]+)\}\s*from\s*['"]([^'"]+)['"]/
ImportAt(code, i) ==
    ThenUpTo(code,
      ThenOneOf(code,
        ThenRun(code,
          ThenLit(code, ThenRun(code, ImportListAt(code, i), SpaceChars, 0), "from"),
          SpaceChars, 0),
        {"'", "\""}),
      {"'", "\""}, 1)

\* /(\w+)(\?)?:\s*([^;]+);/ : the third group keeps the white space after the
\* colon, which its only reader trims
PropertyAt(code, i) ==
    ThenUpTo(code,
      ThenLit(code, ThenOptionalMark(code, ThenWord(code, MatchFrom(i))), ":"),
      {";"}, 1)

MatchAt(regex, code, i) ==
    CASE regex = "interface" -> InterfaceAt(code, i)
      [] regex = "type" -> AliasAt(code, i)
      [] regex = "enum" -> EnumAt(code, i)
      [] regex = "const" -> ConstAt(code, i)
      [] regex = "import" -> ImportAt(code, i)
      [] regex = "property" -> PropertyAt(code, i)

\* the leftmost of the attempts that matched, NoMatch if none did
Leftmost(attempts) ==
    IF \A i \in DOMAIN attempts : ~attempts[i].ok THEN NoMatch
    ELSE attempts[CHOOSE i \in DOMAIN attempts :
                      attempts[i].ok /\ \A k \in DOMAIN attempts : attempts[k].ok => i <= k]

\* regex.exec(code) with regex.lastIndex = lastIndex
exec(regex, code, lastIndex) ==
    Leftmost([i \in lastIndex..Len(code) |-> MatchAt(regex, code, i)])

\* while ((match = regex.exec(code)) !== null): the matches from lastIndex on
RECURSIVE ExecAll(_, _, _)
MatchThenRest(regex, code, match) ==
    IF ~match.ok THEN <<>> ELSE <<match>> \o ExecAll(regex, code, match.lastIndex)

ExecAll(regex, code, lastIndex) == MatchThenRest(regex, code, exec(regex, code, lastIndex))

\* properties.push({name: match[1], type: match[3].trim(), optional: match[2] === '?'})
Properties(matches) ==
    [k \in 1..Len(matches) |->
        Prop(matches[k].groups[1], Trim(matches[k].groups[3]), matches[k].groups[2] = "?")]

extractProperties(body) == Properties(ExecAll("property", body, 1))

\* the members of an enum: the text before '=' of each comma-separated part
EnumValues(body) ==
    LET parts == Split(body, ",")
        names == [k \in 1..Len(parts) |-> Trim(Split(Trim(parts[k]), "=")[1])]
        kept == SelectSeq(names, LAMBDA n : n # "")
    IN [k \in 1..Len(kept) |-> Prop(kept[k], "enum-value", FALSE)]

\* types.push({name: match[1], kind, properties, line: startLine + lineOffset})
\* for each match of one expression
TypeDefinitions(matches, kind, code, startLine) ==
    [k \in 1..Len(matches) |->
        [name |-> matches[k].groups[1],
         kind |-> kind,
         properties |-> IF kind = "interface" THEN extractProperties(matches[k].groups[2])
                        ELSE IF kind = "enum" THEN EnumValues(matches[k].groups[2])
                        ELSE <<>>,
         line |-> startLine + LineOffset(code, matches[k].index)]]

\* the four loops of extractTypes, in their order
DeclarationKinds == <<"interface", "type", "enum", "const">>

extractTypes(code, startLine) ==
    Flatten([k \in 1..Len(DeclarationKinds) |->
                TypeDefinitions(ExecAll(DeclarationKinds[k], code, 1),
                                DeclarationKinds[k], code, startLine)])

\* name.replace(/\s+as\s+\w+/, '').trim(), for names separated by single spaces
CleanName(name) ==
    LET hits == { i \in 1..Len(name) :
                    Lit(name, i, " as ") /\ SpanEnd(name, i + 4, WordChars) > i + 4 }
    IN IF hits = {} THEN Trim(name)
       ELSE LET i == CHOOSE j \in hits : \A k \in hits : j <= k
            IN Trim(SubSeq(name, 1, i - 1)
                    \o SubSeq(name, SpanEnd(name, i + 4, WordChars), Len(name)))

\* /^[a-zA-Z_$][a-zA-Z0-9_$]*$/
IsIdentifier(name) ==
    /\ Len(name) >= 1
    /\ IsNameStart(CharAt(name, 1))
    /\ \A k \in 2..Len(name) : IsWordChar(CharAt(name, k)) \/ CharAt(name, k) = "$"

importedItems(items) ==
    LET parts == Split(items, ",")
        trimmed == [k \in 1..Len(parts) |-> Trim(parts[k])]
        named == SelectSeq(trimmed, LAMBDA n : n # "" /\ IsNameStart(CharAt(n, 1)))
        clean == [k \in 1..Len(named) |-> CleanName(named[k])]
    IN SelectSeq(clean, LAMBDA n : IsIdentifier(n))

\* imports.push({name, source: match[2], line}) for each name of one import
ImportsNamed(names, source, line) ==
    [n \in 1..Len(names) |-> Import(names[n], source, line)]

ImportsOfMatches(matches, code, startLine) ==
    Flatten([k \in 1..Len(matches) |->
                ImportsNamed(importedItems(matches[k].groups[1]), matches[k].groups[2],
                             startLine + LineOffset(code, matches[k].index))])

extractImports(code, startLine) == ImportsOfMatches(ExecAll("import", code, 1), code, startLine)

(***************************************************************************)
(* parseContract: the loop over the lines of a document, one action per    *)
(* kind of line.  scan.i is the number of lines consumed.                  *)
(***************************************************************************)
ScanStart(lines) ==
    [lines |-> lines, i |-> 0, inCodeBlock |-> FALSE, codeBlockContent |-> "",
     codeBlockStartLine |-> 0, imports |-> <<>>, types |-> <<>>]

\* The backquote cannot be written in a string of this module: the character
\* '^' stands for it, so Fence is the three backquotes of a markdown fence.
Backquote == "^"
Fence == Backquote \o Backquote \o Backquote

\* line.trim().startsWith(<fence>typescript) || line.trim().startsWith(<fence>ts)
OpensCodeBlock(line) ==
    StartsWith(Trim(line), Fence \o "typescript") \/ StartsWith(Trim(line), Fence \o "ts")

ScanFrame ==
    UNCHANGED <<pc, files, primitivesPath, contractPaths, primitives, contracts, allIssues,
                graph, report, dfsVars, cliVars>>

\* ScanOpenFence, keeping the text collected so far
ScanOpenFenceKeeping ==
    /\ pc = "parse"
    /\ scan.i < Len(scan.lines)
    /\ OpensCodeBlock(scan.lines[scan.i + 1])
    /\ scan' = [scan EXCEPT !.inCodeBlock = TRUE,
                            !.codeBlockStartLine =
                                IF scan.inCodeBlock THEN @ ELSE scan.i + 1,
                            !.i = @ + 1]
    /\ ScanFrame

ScanOpenFence ==
    /\ pc = "parse"
    /\ scan.i < Len(scan.lines)
    /\ OpensCodeBlock(scan.lines[scan.i + 1])
    /\ scan' = [scan EXCEPT !.inCodeBlock = TRUE,
                            !.codeBlockContent = "",
                            !.codeBlockStartLine = scan.i + 1,
                            !.i = @ + 1]
    /\ ScanFrame

ScanCloseFence ==
    /\ pc = "parse"
    /\ scan.i < Len(scan.lines)
    /\ ~OpensCodeBlock(scan.lines[scan.i + 1])
    /\ Trim(scan.lines[scan.i + 1]) = Fence
    /\ scan.inCodeBlock
    /\ scan' = [scan EXCEPT
                   !.inCodeBlock = FALSE,
                   !.imports = @ \o extractImports(scan.codeBlockContent,
                                                   scan.codeBlockStartLine),
                   !.types = @ \o extractTypes(scan.codeBlockContent, scan.codeBlockStartLine),
                   !.i = @ + 1]
    /\ ScanFrame

\* any other line: collected when inside a code block
ScanLine ==
    /\ pc = "parse"
    /\ scan.i < Len(scan.lines)
    /\ ~OpensCodeBlock(scan.lines[scan.i + 1])
    /\ ~(Trim(scan.lines[scan.i + 1]) = Fence /\ scan.inCodeBlock)
    /\ scan' = [scan EXCEPT
                   !.codeBlockContent =
                       IF scan.inCodeBlock THEN @ \o scan.lines[scan.i + 1] \o "\n" ELSE @,
                   !.i = @ + 1]
    /\ ScanFrame

\* return contract
ScanReturn ==
    /\ pc = "parse"
    /\ scan.i = Len(scan.lines)
    /\ pc' = "parsed"
    /\ UNCHANGED <<files, primitivesPath, contractPaths, primitives, contracts, allIssues,
                   graph, report, dfsVars, cliVars, scan>>

NextScan ==
    \/ ScanOpenFence
    \/ ScanCloseFence
    \/ ScanLine
    \/ ScanReturn

MaxLines == 4

AliasLine == "export type OrderId = string;"
ImportLine == "import { Order } from './order';"
RecordLine == "export interface Order { id: OrderId; }"

LinePool ==
    {Fence \o "typescript", "  " \o Fence \o "ts", Fence, Fence \o "  ",
     AliasLine, ImportLine, RecordLine}

AtParse(lines) ==
    /\ pc = "parse"
    /\ scan = ScanStart(lines)
    /\ files = <<>>
    /\ primitivesPath = ""
    /\ contractPaths = <<>>
    /\ primitives = NoValue
    /\ contracts = <<>>
    /\ allIssues = <<>>
    /\ graph = NoValue
    /\ report = NoValue
    /\ DfsIdle
    /\ CliIdle

InitScan == \E lines \in SeqsUpTo(LinePool, MaxLines) : AtParse(lines)

SpecScan == InitScan /\ [][NextScan]_vars

(***************************************************************************)
(* Properties of the extractor.                                            *)
(***************************************************************************)
Parsed == pc = "parsed"

\* the declaration of the type begins on the given line of the document
TypeBeginsOn(type, n) ==
    /\ n \in 1..Len(scan.lines)
    /\ \/ StartsWith(scan.lines[n], "export type " \o type.name \o " ")
       \/ StartsWith(scan.lines[n], "export interface " \o type.name \o " ")

ImportBeginsOn(import, n) ==
    /\ n \in 1..Len(scan.lines)
    /\ StartsWith(scan.lines[n], "import { " \o import.name \o " }")

\* C22: the line recorded for an extracted declaration or import is the
\* 1-based line of the document on which it begins.
C22_LineOfDeclaration ==
    Parsed =>
        /\ \A k \in 1..Len(scan.types) : TypeBeginsOn(scan.types[k], scan.types[k].line)
        /\ \A k \in 1..Len(scan.imports) : ImportBeginsOn(scan.imports[k], scan.imports[k].line)

\* what the extractor records instead: the line before the one the
\* declaration begins on
LineBeforeDeclaration ==
    Parsed =>
        /\ \A k \in 1..Len(scan.types) : TypeBeginsOn(scan.types[k], scan.types[k].line + 1)
        /\ \A k \in 1..Len(scan.imports) :
              ImportBeginsOn(scan.imports[k], scan.imports[k].line + 1)

\* line n lies inside a fenced region that is closed within the first `upTo'
\* lines: between an opening line and the next closing line, with no opening
\* line in between
InRegion(n, upTo, opening, closing) ==
    \E o \in 1..(n - 1) :
        \E c \in (n + 1)..upTo :
            /\ scan.lines[o] \in opening
            /\ scan.lines[c] \in closing
            /\ \A m \in (o + 1)..(c - 1) : scan.lines[m] \notin (opening \cup closing)

\* the lines declaring a type, and those holding an import, inside such regions
TypeLinesIn(upTo, opening, closing) ==
    { n \in 1..upTo : /\ scan.lines[n] \in {AliasLine, RecordLine}
                      /\ InRegion(n, upTo, opening, closing) }

ImportLinesIn(upTo, opening, closing) ==
    { n \in 1..upTo : scan.lines[n] = ImportLine /\ InRegion(n, upTo, opening, closing) }

\* every extracted entry stems from one line of the set, and each line of the
\* set yields one entry (an entry records the line before its own)
ExtractedFrom(entries, lineSet) ==
    /\ Len(entries) = Cardinality(lineSet)
    /\ { entries[k].line + 1 : k \in 1..Len(entries) } = lineSet

StartsWithFence(line) ==
    StartsWith(line, Fence \o "typescript") \/ StartsWith(line, Fence \o "ts")

IsExactlyFence(line) == line = Fence

TrimmedStartsWithFence(line) == StartsWithFence(Trim(line))

TrimmedIsFence(line) == Trim(line) = Fence

\* the lines of the pool that open and that close a region, as the claim
\* words it and with white space removed
OpeningAsStated == { l \in LinePool : StartsWithFence(l) }

ClosingAsStated == { l \in LinePool : IsExactlyFence(l) }

OpeningTrimmed == { l \in LinePool : TrimmedStartsWithFence(l) }

ClosingTrimmed == { l \in LinePool : TrimmedIsFence(l) }

\* C29 as stated: at every point of the scan the declarations and imports
\* extracted so far are those of the lines between a line that starts with
\* the typescript or ts fence and the next line that is exactly the fence.
C29_AsStated ==
    pc \in {"parse", "parsed"} =>
        /\ ExtractedFrom(scan.types, TypeLinesIn(scan.i, OpeningAsStated, ClosingAsStated))
        /\ ExtractedFrom(scan.imports, ImportLinesIn(scan.i, OpeningAsStated, ClosingAsStated))

\* C29: at every point of the scan the declarations and imports extracted so
\* far are those of the lines between a line that, with leading and trailing
\* white space removed, starts with the typescript or ts fence and the next
\* line that, with white space removed, is the fence; text outside such
\* regions, in a region not yet closed or in a region interrupted by another
\* opening fence yields nothing.
C29_OnlyClosedRegions ==
    pc \in {"parse", "parsed"} =>
        /\ ExtractedFrom(scan.types,
                         TypeLinesIn(scan.i, OpeningTrimmed, ClosingTrimmed))
        /\ ExtractedFrom(scan.imports,
                         ImportLinesIn(scan.i, OpeningTrimmed, ClosingTrimmed))

\* an indented opening fence, a declaration, a closing fence followed by
\* blanks, and an import outside the region: one type, no import
C29_Witness ==
    /\ Parsed
    /\ scan.lines = <<"  " \o Fence \o "ts", AliasLine, Fence \o "  ", ImportLine>>
    /\ Len(scan.types) = 1
    /\ scan.types[1].name = "OrderId"
    /\ scan.imports = <<>>

(***************************************************************************)
(* Records whose fields have object types with nested braces.              *)
(***************************************************************************)
MaxFields == 3

\* a field as written in a record body, and its name
FieldAtoms ==
    { [text |-> "id: string;", name |-> "id"],
      [text |-> "note?: string;", name |-> "note"],
      [text |-> "meta: { tag: string; };", name |-> "meta"],
      [text |-> "geo: { at: { lat: number; }; };", name |-> "geo"] }

RECURSIVE JoinFields(_)
JoinFields(fields) ==
    IF Len(fields) = 0 THEN "" ELSE Head(fields).text \o " " \o JoinFields(Tail(fields))

RecordText(fields) == "export interface Order { " \o JoinFields(fields) \o "}"

InitBraces ==
    \E fields \in SeqsUpTo(FieldAtoms, MaxFields) :
        AtParse(<<Fence \o "typescript", RecordText(fields), Fence>>)

SpecBraces == InitBraces /\ [][NextScan]_vars

\* the top-level fields written in the record of line 2
WrittenFields == { f \in FieldAtoms : Includes(scan.lines[2], " " \o f.text \o " ") }

\* C23: the record is extracted with every top-level field of its body, also
\* the fields that follow a field whose type holds nested braces.
C23_FieldsAfterNestedBraces ==
    Parsed =>
        /\ Len(scan.types) = 1
        /\ scan.types[1].name = "Order"
        /\ \A f \in WrittenFields :
              \E k \in 1..Len(scan.types[1].properties) :
                  scan.types[1].properties[k].name = f.name

\* the list is a closed path of the graph that passes through no node twice,
\* its two ends apart
IsSimpleClosedPath(g, c) ==
    /\ Len(c) >= 2
    /\ c[1] = c[Len(c)]
    /\ \A i \in 1..(Len(c) - 1) : <<c[i], c[i + 1]>> \in Edges(g)
    /\ \A i, j \in 1..(Len(c) - 1) : i # j => c[i] # c[j]

\* C24: every cycle recorded by detectCycles, at any point and on return, is
\* a closed path of the graph: its first and last elements are the same node,
\* every consecutive pair is an edge of the graph, and no node other than the
\* first/last occurs twice in it.
C24_CyclesAreClosedPaths ==
    \A i \in 1..Len(dCycles) : IsSimpleClosedPath(dGraph, dCycles[i])

\* detection has returned two cycles on one graph, a self-loop and a cycle
\* through three nodes found from a node reached after a descent
C24_Witness ==
    /\ pc = "detected"
    /\ \E i \in 1..Len(dCycles) : Len(dCycles[i]) = 2
    /\ \E i \in 1..Len(dCycles) : Len(dCycles[i]) = 4

(***************************************************************************)
(* Three contracts that declare the record, each possibly more than once   *)
(* (a markdown document may show the record in several code blocks), with  *)
(* a shared vocabulary that does not declare the name, declares it as an   *)
(* alias, or declares it as a record.                                      *)
(***************************************************************************)
MaxDecls == 2

ShortAddress == <<Prop("id", "string", FALSE)>>

LongAddress == <<Prop("id", "string", FALSE), Prop("phone", "string", FALSE)>>

AddressShapes == {ShortAddress, LongAddress}

\* a document declaring the record once per shape, in successive code blocks
AddressDecls(shapes) ==
    Doc(<<>>, [k \in 1..Len(shapes) |-> Interface(RecordName, shapes[k], 3 * k)])

BaselineVocabularies ==
    { OrderVocabulary,
      Doc(<<>>, OrderVocabulary.types \o <<Alias(RecordName, 6)>>),
      VocabularyWith(ShortAddress),
      VocabularyWith(LongAddress) }

InitBaseline ==
    \E v \in BaselineVocabularies :
        \E d1, d2, d3 \in SeqsUpTo(AddressShapes, MaxDecls) :
            AtShapeCheck((PrimitivesPath :> v)
                             @@ (UserPath :> AddressDecls(d1))
                             @@ (BillingPath :> AddressDecls(d2))
                             @@ (InvoicePath :> AddressDecls(d3)),
                         PrimitivesPath, <<UserPath, BillingPath, InvoicePath>>)

SpecBaseline == InitBaseline /\ [][NextShape]_vars

\* the documents that declare a record of the name
Declarers(name) == { RecordsOf(name)[i].file : i \in 1..Len(RecordsOf(name)) }

\* the shared vocabulary's record if it declares the name as a record,
\* otherwise the record of the first contract in input order
BaselineOf(name) == RecordsOf(name)[1]

\* the issues of comparing every later declaration with that baseline
IssuesAgainstBaseline(name) ==
    Flatten([i \in 1..(Len(RecordsOf(name)) - 1) |->
                CompareToBaseline(name, BaselineOf(name), RecordsOf(name)[i + 1])])

\* the issues for the name are those of comparing each declaration after the
\* first with one and the same baseline
OneBaselinePerName ==
    (ShapeChecked /\ Cardinality(Declarers(RecordName)) >= 3)
    => ShapeIssuesFor(RecordName) = IssuesAgainstBaseline(RecordName)

\* C25: when three or more documents declare a record of the same name,
\* every declaration after the first is compared against one and the same
\* baseline (the shared vocabulary's record if it declares the name as a
\* record, otherwise the record of the first contract in input order) and
\* never against each other, and every issue for that name is attributed to
\* a non-baseline document.
C25_BaselineAndAttribution ==
    (ShapeChecked /\ Cardinality(Declarers(RecordName)) >= 3)
    => /\ ShapeIssuesFor(RecordName) = IssuesAgainstBaseline(RecordName)
       /\ \A k \in 1..Len(ShapeIssuesFor(RecordName)) :
              ShapeIssuesFor(RecordName)[k].file # BaselineOf(RecordName).file

\* C25 for documents that declare the record at most once each
AttributionWhenDeclaredOnce ==
    (/\ ShapeChecked
     /\ Cardinality(Declarers(RecordName)) >= 3
     /\ Len(RecordsOf(RecordName)) = Cardinality(Declarers(RecordName)))
    => /\ ShapeIssuesFor(RecordName) = IssuesAgainstBaseline(RecordName)
       /\ \A k \in 1..Len(ShapeIssuesFor(RecordName)) :
              ShapeIssuesFor(RecordName)[k].file # BaselineOf(RecordName).file

\* C26: two declared names that are equal when compared case-insensitively
\* but spelled with different case never get a similarity warning; every
\* similarity warning is about a pair whose similarity is at or above the
\* threshold and strictly below 1.
C26_EqualUpToCaseNotSimilar ==
    NamingChecked =>
        \A a \in AllDeclaredNames, b \in AllDeclaredNames :
            /\ (a # b /\ ToLowerCase(a) = ToLowerCase(b)) => SimilarWarnings(a, b) = <<>>
            /\ (a # b /\ SimilarWarnings(a, b) # <<>>) => CloseNames(a, b)

\* Customer and customer are both declared, the audit has run, and its only
\* similarity warnings are about other pairs
C26_Witness ==
    /\ pc = "done"
    /\ {"Customer", "customer", "Customers"} \subseteq AllDeclaredNames
    /\ SimilarWarnings("Customer", "customer") = <<>>
    /\ SimilarWarnings("Customer", "Customers") # <<>>

(***************************************************************************)
(* Identifier and reference type names that differ by a typo.              *)
(***************************************************************************)
MaxIdNames == 2

IdNamePool ==
    {"CustomerId", "CustomrId", "OrderRef", "OrdersRef", "Id", "Invoice", "Invoices"}

\* what the second contract declares
BillingIdNames == { <<>>, <<"OrdersRef">>, <<"CustomrId", "Invoices">> }

InitIdRef ==
    \E names \in SeqsUpTo(IdNamePool, MaxIdNames), billing \in BillingIdNames :
        AtNamingCheck((PrimitivesPath :> Doc(<<>>, <<>>))
                          @@ (UserPath :> Doc(<<>>, Aliases3(names)))
                          @@ (BillingPath :> Doc(<<>>, Aliases3(billing))),
                      PrimitivesPath, <<UserPath, BillingPath>>)

SpecIdRef == InitIdRef /\ [][NextNaming]_vars

\* C30: two distinct declared names that both end in 'Id', or that both end
\* in 'Ref', never get a similarity warning, whatever their similarity and
\* even when their bases differ.
C30_SameFormNeverWarned ==
    NamingChecked =>
        \A a \in AllDeclaredNames, b \in AllDeclaredNames :
            ( /\ a # b
              /\ \/ EndsWith(a, "Id") /\ EndsWith(b, "Id")
                 \/ EndsWith(a, "Ref") /\ EndsWith(b, "Ref") )
            => SimilarWarnings(a, b) = <<>>

\* CustomerId and its typo CustomrId are declared by different contracts:
\* they are similar, their bases differ, and the audit, which did warn about
\* Invoice and Invoices, has no warning for them
C30_Witness ==
    /\ pc = "done"
    /\ {"CustomerId", "CustomrId", "Invoice", "Invoices"} \subseteq AllDeclaredNames
    /\ CloseNames("CustomerId", "CustomrId")
    /\ StripSuffix("CustomerId") # StripSuffix("CustomrId")
    /\ SimilarWarnings("CustomerId", "CustomrId") = <<>>
    /\ SimilarWarnings("Invoice", "Invoices") # <<>>

(***************************************************************************)
(* Cycles among the documents, and the names of the nodes.                 *)
(***************************************************************************)
\* the dependencies between the documents: A -> B iff A imports a name that
\* B, another contract, declares
DocumentEdges ==
    { e \in { <<contracts[a].filePath, contracts[b].filePath>> :
                a \in 1..Len(contracts), b \in 1..Len(contracts) } :
        /\ e[1] # e[2]
        /\ \E a \in 1..Len(contracts), b \in 1..Len(contracts) :
              /\ contracts[a].filePath = e[1]
              /\ contracts[b].filePath = e[2]
              /\ ImportsFrom(contracts[a], contracts[b]) }

DocumentCycle ==
    \E a \in 1..Len(contracts) :
        <<contracts[a].filePath, contracts[a].filePath>>
            \in Closure(DocumentEdges, Len(contracts))

\* C27: if the dependency graph of the contracts contains a directed cycle,
\* at least one 'circular-dep' error is emitted and the report's passed value
\* is false.
C27_CycleAlwaysReported ==
    (GraphBuilt /\ DocumentCycle)
    => /\ CircularIssues(allIssues) # <<>>
       /\ \A i \in 1..Len(CircularIssues(allIssues)) :
              CircularIssues(allIssues)[i].severity = "error"
       /\ pc = "done" => ~report.passed

\* a cycle of the graph handed to detectCycles always yields an issue,
\* whatever the order of its keys
BuiltCycleReported ==
    (pc = "detected" /\ HasCycle(dGraph)) => CircularIssues(allIssues) # <<>>

DistinctPaths ==
    \A a, b \in 1..Len(contractPaths) : a # b => contractPaths[a] # contractPaths[b]

\* the issue for the cycle made of the single node n
SelfCycleMessage(n) == "Circular dependency detected: " \o n \o " -> " \o n

\* C28: for distinct contract paths the dependency graph has one node per
\* contract, the node names are pairwise distinct, no node lists itself among
\* its dependencies, and no cycle made of a single document is reported.
C28_DistinctNodesNoSelfLoop ==
    (GraphBuilt /\ DistinctPaths) =>
        /\ Len(graph) = Len(contracts)
        /\ \A a, b \in 1..Len(graph) : a # b => graph[a].name # graph[b].name
        /\ \A a \in 1..Len(graph) : ~Contains(graph[a].dependencies, graph[a].name)
        /\ \A i \in 1..Len(allIssues) : \A a \in 1..Len(graph) :
              allIssues[i].message # SelfCycleMessage(graph[a].name)
====
